---- MODULE Spec2Model ----
(***************************************************************************)
(* A model of the discrete-event simulation kernel (Kernel.py): the event *)
(* queue, the global and per-agent clocks, the computation / transient    *)
(* delays, and the kernel calls an agent makes from inside a callback.     *)
(***************************************************************************)
EXTENDS Integers, Sequences, FiniteSets, TLC

\* ------------------------------------------------------------------ bounds
\* Latest time an agent asks for (setWakeup) or a message is scheduled at.
MaxTime == 4
\* Number of kernel calls the agents make in one run.
MaxCalls == 3
\* Number of calls of handleLimitOrder and cancelOrder made to the order book.
MaxBookCalls == 3
\* Number of the calls that place or cancel an order and of the messages
\* received, of the trader observed on its own.
MaxMessages == 4
\* Number of events an agent enqueues in one callback, and of the entries the
\* queue holds, where the number of callbacks of a run is not bounded.
MaxRunCalls == 2
MaxQueue == 3
\* Callbacks of the ZeroIntelligenceAgent in a run.
MaxZICalls == 8

\* --------------------------------------------------------- run parameters
\* Python's None (currentTime before the clock starts, a missing argument).
None == -1
\* Payload of a wakeup event: the tuple holds None in the message slot.
NoMsg == "None"
\* runner(agents = ...): agent ids are the indices of the agents list.
Agents == {0, 1}
\* runner(startTime = ..., stopTime = ...).
StartTime == 1
StopTime == 3
\* runner(defaultComputationDelay = ...).
DefaultComputationDelay == 1
\* runner(agentLatency = ...): [sender][recipient], asymmetric.
agentLatency(s, r) == IF s = r THEN 0 ELSE IF s = 0 THEN 1 ELSE 2
\* runner(latencyNoise = [p0, p1]): np.random.choice(len(latencyNoise), 1,
\* latencyNoise) passes the list as `replace`, so the draw is uniform over
\* the indices 0 .. len(latencyNoise) - 1.
NoiseDraws == {0, 1}

\* ------------------------------------------------- inputs of agent calls
\* sendMessage: <<recipient, msg, delay, noise drawn>>.
SendChoices ==
  {<<0, "m1", 0, 0>>, <<1, "m1", 0, 0>>, <<1, "m2", 1, 0>>, <<0, "m2", 0, 1>>}
\* A delay argument of setAgentComputeDelay / delayAgent is written in halves
\* of a nanosecond, so that a float such as 1.5 can be passed: Halves(2) is
\* the int 2, the odd number 3 is the float 1.5.
Halves(n) == n + n
\* Variant: every argument passes for an int.
TypeIsInt_Any(x) == TRUE
\* type(x) is int
TypeIsInt(x) == x % 2 = 0
\* The int a delay argument of type int is.
IntOf(x) == x \div 2
\* setAgentComputeDelay: -1, 0, 2 and 1.5; delayAgent: -1, 1 and 0.5.
ComputeDelayArgs == {Halves(-1), Halves(0), Halves(2), 3}
ExtraDelayArgs == {Halves(-1), Halves(1), 1}
\* setWakeup(requestedTime = ...): any time, or None.
WakeupArgs == (0 .. MaxTime) \cup {None}

VARIABLES
  pc,                          \* where runner() is
  idx,                         \* index of the agent of a lifecycle loop
  messages,                    \* self.messages: the entries, oldest put first
  currentTime,                 \* self.currentTime
  agentCurrentTimes,           \* self.agentCurrentTimes
  agentComputationDelays,      \* self.agentComputationDelays
  currentAgentAdditionalDelay, \* self.currentAgentAdditionalDelay
  callback,                    \* the agent callback being executed and the
                               \* event it was invoked for
  nextId,                      \* events created so far
  ncalls,                      \* kernel calls made so far
  call,                        \* history: the last kernel call and its outcome
  deliveries,                  \* history: id -> number of callbacks invoked
  lastEnd,                     \* history: agent -> end of its last callback's
                               \* computation (None before its first callback)
  lifecycle,                   \* history: the lifecycle calls made so far,
                               \* <<hook, agent>>, in the order of the calls
  \* An OrderBook (util/OrderBook.py) and the handleLimitOrder call in progress.
  bpc,                         \* where the order book's code is
  bids,                        \* self.bids: price levels, best first
  asks,                        \* self.asks: price levels, best first
  last_trade,                  \* self.last_trade
  new_order,                   \* handleLimitOrder: order, the new order
  executed,                    \* handleLimitOrder: executed, <<quantity, price>>
  sent,                        \* the owner.sendMessage calls of the last call
  norders,                     \* LimitOrders brought to the book so far
  ncancels,                    \* cancelOrder calls so far
  bcall,                       \* history: the last call and its argument
  \* The TradingAgents (agent/TradingAgent.py) and their messages.
  tpc,                         \* "running", or "raised" once a trader's code
                               \* has raised an exception
  holdings,                    \* self.holdings, of each trader
  orders,                      \* self.orders
  trader_last_trade,           \* self.last_trade (of the trader)
  daily_close_price,           \* self.daily_close_price
  mkt_open,                    \* self.mkt_open
  mkt_close,                   \* self.mkt_close
  mkt_closed,                  \* self.mkt_closed
  first_wake,                  \* self.first_wake
  next_order_id,               \* the order_id the next LimitOrder is given
  submitted,                   \* the ORDER_SUBMITTED events logged: the orders
                               \* sent to the exchange, by order_id
  toExchange,                  \* messages of the traders on their way to the
                               \* exchange, oldest first
  inflight,                    \* messages on their way to the traders
  ntcalls,                     \* placeLimitOrder and cancelOrder calls so far
  nreceived,                   \* messages a trader was handed by the kernel
  tsent,                       \* the kernel calls of the trader's last method
  tcall,                       \* history: the trader's last method and its
                               \* arguments
  state,                       \* self.state of a ZeroIntelligenceAgent
  nwakeups,                    \* history: the wakeups of the
                               \* ZeroIntelligenceAgent so far
  book_before,                 \* history: the book before the last LIMIT_ORDER
  roundtrip                    \* history: the orders cancelled in the book
                               \* with nothing of them executed

vars == <<pc, idx, messages, currentTime, agentCurrentTimes,
          agentComputationDelays, currentAgentAdditionalDelay, callback,
          nextId, ncalls, call, deliveries, lastEnd, lifecycle>>

bookVars ==
  <<bpc, bids, asks, last_trade, new_order, executed, sent, norders,
    ncancels,
    bcall>>

traderVars ==
  <<tpc, holdings, orders, trader_last_trade, daily_close_price, mkt_open,
    mkt_close, mkt_closed, first_wake, next_order_id, submitted, toExchange,
    inflight, ntcalls, nreceived, tsent, tcall, state, nwakeups, book_before,
    roundtrip>>

allVars == <<vars, bookVars, traderVars>>

WAKEUP == "WAKEUP"
MESSAGE == "MESSAGE"

NoCallback == [agent |-> None, kind |-> "none", time |-> None, msg |-> NoMsg,
               id |-> 0, earliest |-> None]
NoCall == [op |-> "none", sender |-> None, recipient |-> None, msg |-> NoMsg,
           arg |-> 0, noise |-> 0, raised |-> FALSE]

\* ------------------------------------------------------ the priority queue
\* An entry (deliverAt, (recipient, type, msg)) of self.messages. `id` names
\* the event across its re-insertions; `earliest` is history: for a message,
\* the send time plus the sender's computation delay and the latency.
Entry(time, recipient, type, msg, id, earliest) ==
  [time |-> time, recipient |-> recipient, type |-> type, msg |-> msg,
   id |-> id, earliest |-> earliest]

\* Comparison of the (type, msg) tails of two entries with equal time and
\* recipient, at positions i and j: MessageType and Message order themselves.
PayloadBefore(i, j) == i < j

\* Variant: the entries are ordered by their time alone.
Before_TimeOnly(i, j) == messages[i].time < messages[j].time

\* queue.PriorityQueue orders its entries (deliverAt, (recipient, type, msg))
\* as Python tuples: by time, then by recipient id, then by the rest.
Before(i, j) ==
  \/ messages[i].time < messages[j].time
  \/ /\ messages[i].time = messages[j].time
     /\ messages[i].recipient < messages[j].recipient
  \/ /\ messages[i].time = messages[j].time
     /\ messages[i].recipient = messages[j].recipient
     /\ PayloadBefore(i, j)

\* self.messages.get(): the position of the least entry.
QueueHead ==
  CHOOSE i \in 1 .. Len(messages) :
    \A j \in (1 .. Len(messages)) \ {i} : Before(i, j)

\* The queue without the entry at position i.
Remove(q, i) == [k \in 1 .. Len(q) - 1 |-> IF k < i THEN q[k] ELSE q[k + 1]]

\* self.messages.put(entry)
Put(q, entry) == Append(q, entry)

\* ----------------------------------------------------------- the order book
\* OrderBook(owner, symbol): the symbol of the book, and another one.
Symbol == "ABC"
OtherSymbol == "XYZ"
\* Limit prices, in integer cents, and the opening price the owner of the
\* book may have put in last_trade before the first order.
Prices == {1, 2, 3}
OpenPrice == 2
\* Quantities of the orders brought to the book, in shares.
Quantities == {1, 2}
\* The symbol and quantity of an order that is not for this book, or is for
\* no shares or less.
BadChoices == {<<OtherSymbol, 1>>, <<Symbol, 0>>, <<Symbol, -1>>}

\* TradingAgent(id, name, startingCash): the cash of every trader, in cents.
StartingCash == 300
\* The exchange is the agent after the traders.
ExchangeID == 2
\* getWakeFrequency(), which a subclass supplies: the offset of the first
\* trading wakeup from the market open.
WakeFrequency == 1
\* The market hours the exchange reports.
MktOpen == 1
MktClose == 3

\* The fields of a LimitOrder that the order book reads and writes.
LimitOrder(order_id, agent_id, symbol, quantity, is_buy_order, limit_price) ==
  [order_id |-> order_id, agent_id |-> agent_id, symbol |-> symbol,
   quantity |-> quantity, is_buy_order |-> is_buy_order,
   limit_price |-> limit_price, fill_price |-> None]

\* No order is being handled.
NoOrder == LimitOrder(0, None, Symbol, 0, FALSE, 0)
NoBookCall == [op |-> "none", order |-> NoOrder]

\* OrderBook.__init__, and last_trade as the owner left it.
BookConstructed(trade) ==
  /\ bpc = "idle"
  /\ bids = <<>>
  /\ asks = <<>>
  /\ last_trade = trade
  /\ new_order = NoOrder
  /\ executed = <<>>
  /\ sent = <<>>
  /\ norders = 0
  /\ ncancels = 0
  /\ bcall = NoBookCall

\* ---------------------------------------------------------------- Init
KernelConstructed ==
  /\ pc = "kernelInitializing"
  /\ idx = 0
  /\ messages = <<>>
  /\ currentTime = None
  /\ agentCurrentTimes = [a \in Agents |-> StartTime]
  /\ agentComputationDelays = [a \in Agents |-> DefaultComputationDelay]
  /\ currentAgentAdditionalDelay = 0
  /\ callback = NoCallback
  /\ nextId = 0
  /\ ncalls = 0
  /\ call = NoCall
  /\ deliveries = <<>>
  /\ lastEnd = [a \in Agents |-> None]
  /\ lifecycle = <<>>

\* A dict without keys.
EmptyDict == [k \in {} |-> 0]

\* No method of a trader has been called.
NoTraderCall ==
  [op |-> "none", agent |-> None, order |-> NoOrder, body |-> [msg |-> "None"]]

\* TradingAgent.__init__ of every trader; no message is under way.
TradersConstructed ==
  /\ tpc = "running"
  /\ holdings = [a \in Agents |-> ("CASH" :> StartingCash)]
  /\ orders = [a \in Agents |-> EmptyDict]
  /\ trader_last_trade = [a \in Agents |-> EmptyDict]
  /\ daily_close_price = [a \in Agents |-> EmptyDict]
  /\ mkt_open = [a \in Agents |-> None]
  /\ mkt_close = [a \in Agents |-> None]
  /\ mkt_closed = [a \in Agents |-> FALSE]
  /\ first_wake = [a \in Agents |-> TRUE]
  /\ next_order_id = 1
  /\ submitted = EmptyDict
  /\ toExchange = <<>>
  /\ inflight = <<>>
  /\ ntcalls = 0
  /\ nreceived = 0
  /\ tsent = <<>>
  /\ tcall = NoTraderCall
  /\ book_before = [bids |-> <<>>, asks |-> <<>>, last_trade |-> None]
  /\ roundtrip = {}
  /\ state = "AWAITING_WAKEUP"
  /\ nwakeups = 0

\* The kernel, an order book and the traders, all as constructed.
Init == KernelConstructed /\ BookConstructed(None) /\ TradersConstructed

\* ------------------------------------------------------ lifecycle of runner
\* Variant: the loops over the agents end after the first agent.
LastAgent_First == CHOOSE a \in Agents : \A b \in Agents : a <= b

\* for agent in self.agents: the last agent of the list.
LastAgent == CHOOSE a \in Agents : \A b \in Agents : b <= a

Hook(a, kind) ==
  [agent |-> a, kind |-> kind, time |-> StartTime, msg |-> NoMsg, id |-> 0,
   earliest |-> None]

\* for agent in self.agents: agent.kernelInitializing(self)
KernelInitializing ==
  /\ pc = "kernelInitializing"
  /\ IF idx < LastAgent
       THEN /\ idx' = idx + 1
            /\ lifecycle' = Append(lifecycle, <<"kernelInitializing", idx>>)
            /\ UNCHANGED <<pc, callback>>
       ELSE /\ idx' = 0
            /\ pc' = "kernelStarting"
            /\ callback' = Hook(0, "kernelStarting")
            /\ lifecycle' = lifecycle \o <<<<"kernelInitializing", idx>>,
                                           <<"kernelStarting", 0>>>>
  /\ UNCHANGED bookVars
  /\ UNCHANGED <<messages, currentTime, agentCurrentTimes,
                 agentComputationDelays, currentAgentAdditionalDelay, nextId,
                 ncalls, call, deliveries, lastEnd>>

\* agent.kernelStarting(self.startTime) returns: the next agent's is called,
\* and after the last one the kernel is set to its startTime.
KernelStarting ==
  /\ pc = "kernelStarting"
  /\ IF idx < LastAgent
       THEN /\ idx' = idx + 1
            /\ callback' = Hook(idx + 1, "kernelStarting")
            /\ lifecycle' = Append(lifecycle, <<"kernelStarting", idx + 1>>)
            /\ UNCHANGED <<pc, currentTime>>
       ELSE /\ idx' = 0
            /\ callback' = NoCallback
            /\ currentTime' = StartTime
            /\ pc' = "loop"
            /\ UNCHANGED lifecycle
  /\ UNCHANGED bookVars
  /\ call' = NoCall
  /\ UNCHANGED <<messages, agentCurrentTimes, agentComputationDelays,
                 currentAgentAdditionalDelay, nextId, ncalls, deliveries,
                 lastEnd>>

\* ------------------------------------------------------------ the run loop
\* while not self.messages.empty() and self.currentTime and
\*       (self.currentTime <= self.stopTime)
\* (a pd.Timestamp is always true, so `self.currentTime` tests for None).
LoopCond == messages # <<>> /\ currentTime # None /\ currentTime <= StopTime

\* Variant: the busy test is left out, every popped event is dispatched.
AgentInFuture_Never(e) == FALSE

\* if self.agentCurrentTimes[agent] > self.currentTime (the popped time)
AgentInFuture(e) == agentCurrentTimes[e.recipient] > e.time

\* Variant: the additional delay is not reset in between messages.
AdditionalDelayAtPop_Kept == currentAgentAdditionalDelay

\* self.currentAgentAdditionalDelay = 0, in between messages
AdditionalDelayAtPop == 0

\* Variant: the agent's time is not set to the global time before the call.
ClockAtDispatch_Unset(e) == agentCurrentTimes

\* self.agentCurrentTimes[agent] = self.currentTime, before the callback
ClockAtDispatch(e) == [agentCurrentTimes EXCEPT ![e.recipient] = e.time]

\* Variant: the popped entry of a busy agent is not pushed back.
Requeued_Dropped(i) == Remove(messages, i)

\* Variant: the popped entry is pushed back with the time it was popped at.
Requeued_SameTime(i) == Put(Remove(messages, i), messages[i])

\* The queue after the popped entry, at position i, is pushed back with the
\* agent's time: self.messages.put((self.agentCurrentTimes[agent],
\*                                  (msg_recipient, msg_type, msg)))
Requeued(i) ==
  Put(Remove(messages, i),
      [messages[i] EXCEPT !.time = agentCurrentTimes[messages[i].recipient]])

\* Variant: the agent is not delayed after its callback.
ClockAfterReturn_NoDelay(a) == agentCurrentTimes[a]

\* self.agentCurrentTimes[agent] += pd.Timedelta(
\*   self.agentComputationDelays[agent] + self.currentAgentAdditionalDelay)
ClockAfterReturn(a) ==
  agentCurrentTimes[a] + agentComputationDelays[a] + currentAgentAdditionalDelay

\* One iteration for an agent that is still in the future: the event is
\* pushed back and the loop continues.
Requeue ==
  /\ pc = "loop"
  /\ UNCHANGED <<lifecycle, bookVars>>
  /\ LoopCond
  /\ AgentInFuture(messages[QueueHead])
  /\ currentTime' = messages[QueueHead].time
  /\ currentAgentAdditionalDelay' = AdditionalDelayAtPop
  /\ messages' = Requeued(QueueHead)
  /\ UNCHANGED <<pc, idx, agentCurrentTimes, agentComputationDelays, callback,
                 nextId, ncalls, call, deliveries, lastEnd>>

\* One iteration up to the call of agents[agent].wakeup(self.currentTime) or
\* agents[agent].receiveMessage(self.currentTime, msg).
Dispatch ==
  /\ pc = "loop"
  /\ UNCHANGED <<lifecycle, bookVars>>
  /\ LoopCond
  /\ LET e == messages[QueueHead] IN
       /\ ~AgentInFuture(e)
       /\ currentTime' = e.time
       /\ currentAgentAdditionalDelay' = AdditionalDelayAtPop
       /\ messages' = Remove(messages, QueueHead)
       /\ agentCurrentTimes' = ClockAtDispatch(e)
       /\ callback' = [agent |-> e.recipient,
                       kind |-> IF e.type = WAKEUP THEN "wakeup"
                                                  ELSE "receiveMessage",
                       time |-> e.time,
                       msg |-> e.msg,
                       id |-> e.id,
                       earliest |-> e.earliest]
       /\ deliveries' = [deliveries EXCEPT ![e.id] = @ + 1]
  /\ pc' = "callback"
  /\ call' = NoCall
  /\ UNCHANGED <<idx, agentComputationDelays, nextId, ncalls, lastEnd>>

\* The callback returns: the agent is delayed by its computation delay plus
\* the transient additional delay.
Return ==
  /\ pc = "callback"
  /\ UNCHANGED <<lifecycle, bookVars>>
  /\ agentCurrentTimes' =
       [agentCurrentTimes EXCEPT ![callback.agent] = ClockAfterReturn(callback.agent)]
  /\ lastEnd' = [lastEnd EXCEPT ![callback.agent] =
                   callback.time + agentComputationDelays[callback.agent]
                                 + currentAgentAdditionalDelay]
  /\ pc' = "loop"
  /\ callback' = NoCallback
  /\ call' = NoCall
  /\ UNCHANGED <<idx, messages, currentTime, agentComputationDelays,
                 currentAgentAdditionalDelay, nextId, ncalls, deliveries>>

\* The while condition fails: the queue is empty or the stop time surpassed.
LoopExit ==
  /\ pc = "loop"
  /\ UNCHANGED <<lifecycle, bookVars>>
  /\ ~LoopCond
  /\ pc' = "kernelStopping"
  /\ idx' = 0
  /\ UNCHANGED <<messages, currentTime, agentCurrentTimes,
                 agentComputationDelays, currentAgentAdditionalDelay, callback,
                 nextId, ncalls, call, deliveries, lastEnd>>

\* for agent in agents: agent.kernelStopping()
KernelStopping ==
  /\ pc = "kernelStopping"
  /\ IF idx < LastAgent
       THEN idx' = idx + 1 /\ pc' = pc
       ELSE idx' = 0 /\ pc' = "kernelTerminating"
  /\ lifecycle' = Append(lifecycle, <<"kernelStopping", idx>>)
  /\ UNCHANGED bookVars
  /\ UNCHANGED <<messages, currentTime, agentCurrentTimes,
                 agentComputationDelays, currentAgentAdditionalDelay, callback,
                 nextId, ncalls, call, deliveries, lastEnd>>

\* for agent in agents: agent.kernelTerminating()
KernelTerminating ==
  /\ pc = "kernelTerminating"
  /\ IF idx < LastAgent
       THEN idx' = idx + 1 /\ pc' = pc
       ELSE idx' = 0 /\ pc' = "done"
  /\ lifecycle' = Append(lifecycle, <<"kernelTerminating", idx>>)
  /\ UNCHANGED bookVars
  /\ UNCHANGED <<messages, currentTime, agentCurrentTimes,
                 agentComputationDelays, currentAgentAdditionalDelay, callback,
                 nextId, ncalls, call, deliveries, lastEnd>>

\* ------------------------------------------- kernel calls made by an agent
\* An agent calls the kernel from kernelStarting, wakeup or receiveMessage.
InAgentCode == pc \in {"kernelStarting", "callback"} /\ ncalls < MaxCalls

TheCall(op, sender, recipient, msg, arg, noise, raised) ==
  [op |-> op, sender |-> sender, recipient |-> recipient, msg |-> msg,
   arg |-> arg, noise |-> noise, raised |-> raised]

\* raise ValueError(...): the exception leaves the callback and runner().
Raise ==
  /\ pc' = "raised"
  /\ UNCHANGED <<idx, messages, currentTime, agentCurrentTimes,
                 agentComputationDelays, currentAgentAdditionalDelay, callback,
                 nextId, deliveries, lastEnd>>

\* Variant: the sender's computation delay is not applied to the send time.
SentTime_NoComputationDelay(sender, delay) ==
  currentTime + currentAgentAdditionalDelay + delay

\* sentTime = self.currentTime + pd.Timedelta(
\*   self.agentComputationDelays[sender] + self.currentAgentAdditionalDelay + delay)
SentTime(sender, delay) ==
  currentTime + agentComputationDelays[sender] + currentAgentAdditionalDelay + delay

\* deliverAt = sentTime + pd.Timedelta(latency + noise)
DeliverAt(sender, recipient, delay, noise) ==
  SentTime(sender, delay) + agentLatency(sender, recipient) + noise

\* sendMessage(sender, recipient, msg, delay)
SendMessage(sender, recipient, msg, delay, noise) ==
  /\ InAgentCode
  /\ UNCHANGED <<lifecycle, bookVars>>
  /\ ncalls' = ncalls + 1
  /\ IF sender = None \/ recipient = None \/ msg = NoMsg
       THEN \* the three ValueErrors
            /\ call' = TheCall("sendMessage", sender, recipient, msg, delay, 0, TRUE)
            /\ Raise
       ELSE IF currentTime = None
       THEN \* None + pd.Timedelta: TypeError
            /\ call' = TheCall("sendMessage", sender, recipient, msg, delay, 0, TRUE)
            /\ Raise
       ELSE /\ DeliverAt(sender, recipient, delay, noise) <= MaxTime
            /\ messages' =
                 Put(messages,
                     Entry(DeliverAt(sender, recipient, delay, noise), recipient,
                           MESSAGE, msg, nextId + 1,
                           currentTime + agentComputationDelays[sender]
                                       + agentLatency(sender, recipient)))
            /\ nextId' = nextId + 1
            /\ deliveries' = Append(deliveries, 0)
            /\ call' = TheCall("sendMessage", sender, recipient, msg, delay, noise, FALSE)
            /\ UNCHANGED <<pc, idx, currentTime, agentCurrentTimes,
                           agentComputationDelays, currentAgentAdditionalDelay,
                           callback, lastEnd>>

\* Variant: a wakeup at the current time is refused too.
WakeupInPast_OrNow(requestedTime) ==
  currentTime # None /\ requestedTime <= currentTime

\* if self.currentTime and (requestedTime < self.currentTime)
WakeupInPast(requestedTime) ==
  currentTime # None /\ requestedTime < currentTime

\* setWakeup(sender, requestedTime)
SetWakeup(sender, requestedTime) ==
  /\ InAgentCode
  /\ UNCHANGED <<lifecycle, bookVars>>
  /\ ncalls' = ncalls + 1
  /\ IF requestedTime = None
       THEN \* pd.TimeDelta does not exist: AttributeError
            /\ call' = TheCall("setWakeup", sender, None, NoMsg, requestedTime, 0, TRUE)
            /\ Raise
       ELSE IF sender = None \/ WakeupInPast(requestedTime)
       THEN \* the two ValueErrors
            /\ call' = TheCall("setWakeup", sender, None, NoMsg, requestedTime, 0, TRUE)
            /\ Raise
       ELSE /\ messages' =
                 Put(messages,
                     Entry(requestedTime, sender, WAKEUP, NoMsg, nextId + 1,
                           requestedTime))
            /\ nextId' = nextId + 1
            /\ deliveries' = Append(deliveries, 0)
            /\ call' = TheCall("setWakeup", sender, None, NoMsg, requestedTime, 0, FALSE)
            /\ UNCHANGED <<pc, idx, currentTime, agentCurrentTimes,
                           agentComputationDelays, currentAgentAdditionalDelay,
                           callback, lastEnd>>

\* setAgentComputeDelay(sender, requestedDelay)
SetAgentComputeDelay(sender, requestedDelay) ==
  /\ InAgentCode
  /\ UNCHANGED <<lifecycle, bookVars>>
  /\ ncalls' = ncalls + 1
  /\ IF ~TypeIsInt(requestedDelay) \/ ~(requestedDelay >= 0)
       THEN \* the two ValueErrors
            /\ call' = TheCall("setAgentComputeDelay", sender, None, NoMsg,
                               requestedDelay, 0, TRUE)
            /\ Raise
       ELSE /\ agentComputationDelays' =
                 [agentComputationDelays EXCEPT ![sender] = IntOf(requestedDelay)]
            /\ call' = TheCall("setAgentComputeDelay", sender, None, NoMsg,
                               requestedDelay, 0, FALSE)
            /\ UNCHANGED <<pc, idx, messages, currentTime, agentCurrentTimes,
                           currentAgentAdditionalDelay, callback, nextId,
                           deliveries, lastEnd>>

\* delayAgent(sender, additionalDelay)
DelayAgent(sender, additionalDelay) ==
  /\ InAgentCode
  /\ UNCHANGED <<lifecycle, bookVars>>
  /\ ncalls' = ncalls + 1
  /\ IF ~TypeIsInt(additionalDelay) \/ ~(additionalDelay >= 0)
       THEN \* the two ValueErrors
            /\ call' = TheCall("delayAgent", sender, None, NoMsg,
                               additionalDelay, 0, TRUE)
            /\ Raise
       ELSE /\ currentAgentAdditionalDelay' =
                 currentAgentAdditionalDelay + IntOf(additionalDelay)
            /\ call' = TheCall("delayAgent", sender, None, NoMsg,
                               additionalDelay, 0, FALSE)
            /\ UNCHANGED <<pc, idx, messages, currentTime, agentCurrentTimes,
                           agentComputationDelays, callback, nextId, deliveries,
                           lastEnd>>

\* The arguments an agent passes: its own id as sender, a recipient, a body,
\* a delay (with the noise the kernel then draws), or one argument left out.
SendArgs ==
  ({callback.agent} \X SendChoices)
    \cup {<<None, <<0, "m1", 0, 0>> >>, <<callback.agent, <<None, "m1", 0, 0>> >>,
          <<callback.agent, <<0, NoMsg, 0, 0>> >>}

WakeupCallArgs ==
  ({callback.agent} \X WakeupArgs) \cup {<<None, MaxTime>>}

\* ---------------------------------------------------------- specification
Next ==
  \/ KernelInitializing /\ UNCHANGED traderVars
  \/ KernelStarting /\ UNCHANGED traderVars
  \/ Requeue /\ UNCHANGED traderVars
  \/ Dispatch /\ UNCHANGED traderVars
  \/ Return /\ UNCHANGED traderVars
  \/ LoopExit /\ UNCHANGED traderVars
  \/ KernelStopping /\ UNCHANGED traderVars
  \/ KernelTerminating /\ UNCHANGED traderVars
  \/ \E a \in SendArgs :
       SendMessage(a[1], a[2][1], a[2][2], a[2][3], a[2][4])
         /\ UNCHANGED traderVars
  \/ \E a \in WakeupCallArgs : SetWakeup(a[1], a[2]) /\ UNCHANGED traderVars
  \/ \E requestedDelay \in ComputeDelayArgs :
       SetAgentComputeDelay(callback.agent, requestedDelay)
         /\ UNCHANGED traderVars
  \/ \E additionalDelay \in ExtraDelayArgs :
       DelayAgent(callback.agent, additionalDelay) /\ UNCHANGED traderVars

Spec == Init /\ [][Next]_allVars

\* The time an agent takes for the current time: startTime in kernelStarting.
Now == IF currentTime = None THEN StartTime ELSE currentTime

\* ------------------------------------ one channel between two agents
\* The sender and the recipient of the channel observed.
ChannelFrom == 0
ChannelTo == 1

\* runner() as it enters the run loop when every agent has asked, in its
\* kernelStarting, for a wakeup at startTime; ncalls counts the kernel calls
\* from here on.
ChannelStarted ==
  /\ pc = "loop"
  /\ idx = 0
  /\ messages = <<Entry(StartTime, 0, WAKEUP, NoMsg, 1, StartTime),
                  Entry(StartTime, 1, WAKEUP, NoMsg, 2, StartTime)>>
  /\ currentTime = StartTime
  /\ agentCurrentTimes = [a \in Agents |-> StartTime]
  /\ agentComputationDelays = [a \in Agents |-> DefaultComputationDelay]
  /\ currentAgentAdditionalDelay = 0
  /\ callback = NoCallback
  /\ nextId = 2
  /\ ncalls = 0
  /\ call = NoCall
  /\ deliveries = <<0, 0>>
  /\ lastEnd = [a \in Agents |-> None]
  /\ lifecycle = <<<<"kernelInitializing", 0>>, <<"kernelInitializing", 1>>,
                   <<"kernelStarting", 0>>, <<"kernelStarting", 1>>>>

InitChannel == ChannelStarted /\ BookConstructed(None) /\ TradersConstructed

\* The messages of the channel: "m1" is sent without a delay of its own,
\* "m2" with a one-time delay of 1 ns; the kernel draws no noise.
ChannelSends == {<<"m1", 0>>, <<"m2", 1>>}

\* Only the sender of the channel sends, and to its recipient only; either
\* agent may change its computation delay, delay itself and ask for a wakeup.
NextChannel ==
  \/ Requeue /\ UNCHANGED traderVars
  \/ Dispatch /\ UNCHANGED traderVars
  \/ Return /\ UNCHANGED traderVars
  \/ LoopExit /\ UNCHANGED traderVars
  \/ KernelStopping /\ UNCHANGED traderVars
  \/ KernelTerminating /\ UNCHANGED traderVars
  \/ \E c \in ChannelSends :
       /\ callback.agent = ChannelFrom
       /\ SendMessage(ChannelFrom, ChannelTo, c[1], c[2], 0)
       /\ UNCHANGED traderVars
  \/ \E requestedTime \in {Now, Now + 1} :
       SetWakeup(callback.agent, requestedTime) /\ UNCHANGED traderVars
  \/ \E requestedDelay \in {Halves(0), Halves(2)} :
       SetAgentComputeDelay(callback.agent, requestedDelay)
         /\ UNCHANGED traderVars
  \/ DelayAgent(callback.agent, Halves(1)) /\ UNCHANGED traderVars

SpecChannel == InitChannel /\ [][NextChannel]_allVars

\* ------------------------------------- a run of agents that never stop
\* The agents enqueue events in every callback, as long as the run lasts:
\* ncalls counts the calls of the callback under way, and the history of the
\* events (their ids, their deliveries) is not kept.
RunMayCall ==
  /\ pc \in {"kernelStarting", "callback"}
  /\ ncalls < MaxRunCalls
  /\ Len(messages) < MaxQueue

\* One iteration of the run loop up to the call of wakeup or receiveMessage.
RunDispatch ==
  /\ pc = "loop"
  /\ LoopCond
  /\ LET e == messages[QueueHead] IN
       /\ ~AgentInFuture(e)
       /\ currentTime' = e.time
       /\ currentAgentAdditionalDelay' = AdditionalDelayAtPop
       /\ messages' = Remove(messages, QueueHead)
       /\ agentCurrentTimes' = ClockAtDispatch(e)
       /\ callback' = [agent |-> e.recipient,
                       kind |-> IF e.type = WAKEUP THEN "wakeup"
                                                  ELSE "receiveMessage",
                       time |-> e.time,
                       msg |-> e.msg,
                       id |-> 0,
                       earliest |-> None]
  /\ pc' = "callback"
  /\ call' = NoCall
  /\ ncalls' = 0
  /\ UNCHANGED <<idx, agentComputationDelays, nextId, deliveries, lastEnd,
                 lifecycle>>
  /\ UNCHANGED bookVars

\* setWakeup(sender, requestedTime), for a time that is not refused.
RunSetWakeup(sender, requestedTime) ==
  /\ RunMayCall
  /\ sender # None /\ ~WakeupInPast(requestedTime)
  /\ messages' = Put(messages, Entry(requestedTime, sender, WAKEUP, NoMsg, 0, None))
  /\ ncalls' = ncalls + 1
  /\ call' = TheCall("setWakeup", sender, None, NoMsg, requestedTime, 0, FALSE)
  /\ UNCHANGED <<pc, idx, currentTime, agentCurrentTimes, agentComputationDelays,
                 currentAgentAdditionalDelay, callback, nextId, deliveries,
                 lastEnd, lifecycle>>
  /\ UNCHANGED bookVars

\* sendMessage(sender, recipient, msg), from a callback, without noise.
RunSendMessage(sender, recipient) ==
  /\ RunMayCall
  /\ currentTime # None
  /\ messages' = Put(messages, Entry(DeliverAt(sender, recipient, 0, 0),
                                     recipient, MESSAGE, "m1", 0, None))
  /\ ncalls' = ncalls + 1
  /\ call' = TheCall("sendMessage", sender, recipient, "m1", 0, 0, FALSE)
  /\ UNCHANGED <<pc, idx, currentTime, agentCurrentTimes, agentComputationDelays,
                 currentAgentAdditionalDelay, callback, nextId, deliveries,
                 lastEnd, lifecycle>>
  /\ UNCHANGED bookVars

\* The steps runner() takes by itself, a return from a callback among them.
RunnerStep ==
  \/ KernelInitializing /\ UNCHANGED traderVars
  \/ KernelStarting /\ UNCHANGED traderVars
  \/ Requeue /\ UNCHANGED traderVars
  \/ RunDispatch /\ UNCHANGED traderVars
  \/ Return /\ UNCHANGED traderVars
  \/ LoopExit /\ UNCHANGED traderVars
  \/ KernelStopping /\ UNCHANGED traderVars
  \/ KernelTerminating /\ UNCHANGED traderVars

NextRun ==
  \/ KernelInitializing /\ UNCHANGED traderVars
  \/ KernelStarting /\ UNCHANGED traderVars
  \/ Requeue /\ UNCHANGED traderVars
  \/ RunDispatch /\ UNCHANGED traderVars
  \/ Return /\ UNCHANGED traderVars
  \/ LoopExit /\ UNCHANGED traderVars
  \/ KernelStopping /\ UNCHANGED traderVars
  \/ KernelTerminating /\ UNCHANGED traderVars
  \/ \E requestedTime \in {Now, Now + 1} :
       RunSetWakeup(callback.agent, requestedTime) /\ UNCHANGED traderVars
  \/ \E recipient \in Agents :
       RunSendMessage(callback.agent, recipient) /\ UNCHANGED traderVars

\* runner() is one thread that runs on: it takes its next step, and a
\* callback returns, whatever the agents may still call.
SpecRun == Init /\ [][NextRun]_allVars /\ WF_allVars(RunnerStep)

\* ================================================= the order book's code
\* owner.sendMessage(recipient, Message({"msg": msg, "order": o}))
Message(recipient, msg, o) == [recipient |-> recipient, msg |-> msg, order |-> o]

\* The sequence seq with x put in at position i.
InsertAt(seq, i, x) ==
  [k \in 1 .. Len(seq) + 1 |->
     IF k < i THEN seq[k] ELSE IF k = i THEN x ELSE seq[k - 1]]

\* isEqualPrice(order, o)
isEqualPrice(order, o) == order.limit_price = o.limit_price

\* isBetterPrice(order, o): a higher bid or a lower ask, of the same type.
isBetterPrice(order, o) ==
  IF order.is_buy_order # o.is_buy_order THEN FALSE
  ELSE IF order.is_buy_order /\ order.limit_price > o.limit_price THEN TRUE
  ELSE IF ~order.is_buy_order /\ order.limit_price < o.limit_price THEN TRUE
  ELSE FALSE

\* Variant: an order matches only a strictly better price.
isMatch_Strict(order, o) ==
  IF order.is_buy_order = o.is_buy_order THEN FALSE
  ELSE IF order.is_buy_order /\ order.limit_price > o.limit_price THEN TRUE
  ELSE IF ~order.is_buy_order /\ order.limit_price < o.limit_price THEN TRUE
  ELSE FALSE

\* isMatch(order, o): order 'o' can be matched against input 'order'.
isMatch(order, o) ==
  IF order.is_buy_order = o.is_buy_order THEN FALSE
  ELSE IF order.is_buy_order /\ order.limit_price >= o.limit_price THEN TRUE
  ELSE IF ~order.is_buy_order /\ order.limit_price <= o.limit_price THEN TRUE
  ELSE FALSE

\* executeOrder: the side of the book examined for a match.
OppositeSide(order) == IF order.is_buy_order THEN asks ELSE bids

\* enterOrder, cancelOrder: the side of the book the order is on.
OwnSide(order) == IF order.is_buy_order THEN bids ELSE asks

\* Variant: the match is with the last level that overlaps the order.
MatchLevel_Last(order, book) ==
  IF book = <<>> THEN 0
  ELSE IF ~isMatch(order, book[1][1]) THEN 0
  ELSE CHOOSE i \in 1 .. Len(book) :
         /\ isMatch(order, book[i][1])
         /\ \A k \in i + 1 .. Len(book) : ~isMatch(order, book[k][1])

\* executeOrder: the index i of the level matched, counted from 1, or 0 when
\* executeOrder returns None (no orders on the side, or no overlap with the
\* best price).
MatchLevel(order, book) ==
  IF book = <<>> THEN 0
  ELSE IF ~isMatch(order, book[1][1]) THEN 0
  ELSE CHOOSE i \in 1 .. Len(book) :
         /\ isMatch(order, book[i][1])
         /\ \A k \in 1 .. i - 1 : ~isMatch(order, book[k][1])

\* Variant: the matched order always carries the whole resting quantity.
MatchedQuantity_Resting(order, o) == o.quantity

\* executeOrder: the quantity of the matched order returned, the whole of
\* o or, when the new order is smaller, order.quantity.
MatchedQuantity(order, o) ==
  IF order.quantity >= o.quantity THEN o.quantity ELSE order.quantity

\* Variant: the execution is at the price of the new order.
FillPrice_Incoming(order, o) == order.limit_price

\* matched_order.fill_price = matched_order.limit_price
FillPrice(order, o) == o.limit_price

\* executeOrder(order): the matched order returned, for a match.
executeOrder(order, book) ==
  LET o == book[MatchLevel(order, book)][1] IN
    [o EXCEPT !.quantity = MatchedQuantity(order, o),
              !.fill_price = FillPrice(order, o)]

\* Variant: the matched order leaves the book whatever part of it is filled.
BookAfterExecute_Head(order, book) ==
  LET i == MatchLevel(order, book)
  IN IF Len(book[i]) = 1 THEN Remove(book, i)
                         ELSE [book EXCEPT ![i] = Tail(@)]

\* executeOrder(order): the side of the book after the match.
BookAfterExecute(order, book) ==
  LET i == MatchLevel(order, book)
      o == book[i][1]
  IN IF order.quantity >= o.quantity
       THEN IF Len(book[i]) = 1 THEN Remove(book, i)
                                ELSE [book EXCEPT ![i] = Tail(@)]
       ELSE [book EXCEPT ![i][1].quantity = @ - MatchedQuantity(order, o)]

\* Variant: an order joins its price level at the front.
JoinLevel_Front(level, order) == <<order>> \o level

\* book[i].append(order)
JoinLevel(level, order) == Append(level, order)

\* Variant: an order always opens a level of its own behind the others.
enterOrder_Append(order, book) == Append(book, <<order>>)

\* enterOrder(order): the side of the book with the order entered.
enterOrder(order, book) ==
  IF book = <<>> THEN <<<<order>>>>
  ELSE IF /\ ~isBetterPrice(order, book[Len(book)][1])
          /\ ~isEqualPrice(order, book[Len(book)][1])
    THEN Append(book, <<order>>)
  ELSE LET i == CHOOSE k \in 1 .. Len(book) :
                  /\ isBetterPrice(order, book[k][1]) \/ isEqualPrice(order, book[k][1])
                  /\ \A l \in 1 .. k - 1 :
                       /\ ~isBetterPrice(order, book[l][1])
                       /\ ~isEqualPrice(order, book[l][1])
       IN IF isBetterPrice(order, book[i][1])
            THEN InsertAt(book, i, <<order>>)
            ELSE [book EXCEPT ![i] = JoinLevel(@, order)]

\* Variant: only the symbol of an order is looked at.
Rejected_SymbolOnly(order) == order.symbol # Symbol

\* handleLimitOrder: the order is discarded. (The quantities brought to the
\* book are ints, for which int(order.quantity) != order.quantity is false.)
Rejected(order) == order.symbol # Symbol \/ order.quantity <= 0

\* Variant: the quantity of the new order is not decremented.
Residual_Whole(order, filled_order) == order.quantity

\* order.quantity -= filled_order.quantity
Residual(order, filled_order) == order.quantity - filled_order.quantity

RECURSIVE TradeQty(_)
\* trade_qty += q, over executed
TradeQty(done) ==
  IF done = <<>> THEN 0 ELSE done[1][1] + TradeQty(Tail(done))

RECURSIVE TradePrice(_)
\* trade_price += (p*q), over executed
TradePrice(done) ==
  IF done = <<>> THEN 0 ELSE done[1][2] * done[1][1] + TradePrice(Tail(done))

\* int(round(n / d)) for n >= 0 and d > 0: Python rounds a half to the even
\* neighbour.
Round(n, d) ==
  LET q == n \div d
      r == n % d
  IN IF r + r < d THEN q
     ELSE IF r + r > d THEN q + 1
     ELSE IF q % 2 = 0 THEN q ELSE q + 1

\* Variant: the last trade is the price of the last execution of the call.
LastTrade_LastFill(done) ==
  IF done = <<>> THEN last_trade ELSE done[Len(done)][2]

\* handleLimitOrder, after the loop: self.last_trade = avg_price if any
\* execution was made.
LastTrade(done) ==
  IF done = <<>> THEN last_trade ELSE Round(TradePrice(done), TradeQty(done))

\* handleLimitOrder(order) up to the loop: the order is discarded, or
\* prettyPrint() fails to format a last_trade of None ("{:0.2f}", TypeError),
\* or the loop is entered.
HandleLimitOrder(order) ==
  /\ bpc = "idle"
  /\ norders + ncancels < MaxBookCalls
  /\ norders' = norders + 1
  /\ bcall' = [op |-> "handleLimitOrder", order |-> order]
  /\ sent' = <<>>
  /\ IF Rejected(order)
       THEN UNCHANGED <<bpc, new_order, executed>>
       ELSE IF last_trade = None
       THEN bpc' = "raised" /\ UNCHANGED <<new_order, executed>>
       ELSE bpc' = "matching" /\ new_order' = order /\ executed' = <<>>
  /\ UNCHANGED <<bids, asks, last_trade, ncancels>>
  /\ UNCHANGED vars

\* One iteration of the loop in which executeOrder returns a match: both
\* traders are notified; when nothing of the new order is left the loop ends
\* and the last trade is set.
ExecuteStep ==
  /\ bpc = "matching"
  /\ MatchLevel(new_order, OppositeSide(new_order)) # 0
  /\ LET matched_order == executeOrder(new_order, OppositeSide(new_order))
         filled_order == [new_order EXCEPT !.quantity = matched_order.quantity,
                                           !.fill_price = matched_order.fill_price]
         left == [new_order EXCEPT !.quantity = Residual(new_order, filled_order)]
         done == Append(executed, <<filled_order.quantity, filled_order.fill_price>>)
     IN /\ IF new_order.is_buy_order
             THEN /\ asks' = BookAfterExecute(new_order, asks)
                  /\ bids' = bids
             ELSE /\ bids' = BookAfterExecute(new_order, bids)
                  /\ asks' = asks
        /\ sent' = sent \o
             <<Message(left.agent_id, "ORDER_EXECUTED", filled_order),
               Message(matched_order.agent_id, "ORDER_EXECUTED", matched_order)>>
        /\ IF left.quantity <= 0
             THEN /\ bpc' = "idle"
                  /\ last_trade' = LastTrade(done)
                  /\ new_order' = NoOrder
                  /\ executed' = <<>>
             ELSE /\ bpc' = "matching"
                  /\ new_order' = left
                  /\ executed' = done
                  /\ last_trade' = last_trade
  /\ UNCHANGED <<norders, ncancels, bcall>>
  /\ UNCHANGED vars

\* The iteration of the loop in which executeOrder returns None: the new
\* order enters the book, its agent is notified, the loop ends and the last
\* trade is set.
AcceptStep ==
  /\ bpc = "matching"
  /\ MatchLevel(new_order, OppositeSide(new_order)) = 0
  /\ IF new_order.is_buy_order
       THEN bids' = enterOrder(new_order, bids) /\ asks' = asks
       ELSE asks' = enterOrder(new_order, asks) /\ bids' = bids
  /\ sent' = Append(sent, Message(new_order.agent_id, "ORDER_ACCEPTED", new_order))
  /\ bpc' = "idle"
  /\ last_trade' = LastTrade(executed)
  /\ new_order' = NoOrder
  /\ executed' = <<>>
  /\ UNCHANGED <<norders, ncancels, bcall>>
  /\ UNCHANGED vars

\* Variant: an order of the price of `order` is taken for it, whatever its
\* order_id.
CancelPlaces_PriceOnly(order, book) ==
  {pl \in (1 .. Len(book)) \X (1 .. MaxBookCalls) :
     /\ pl[2] <= Len(book[pl[1]])
     /\ isEqualPrice(order, book[pl[1]][1])}

\* cancelOrder: the places <<i, ci>> of the orders with the price and the
\* order_id of `order` on a side of the book.
CancelPlaces(order, book) ==
  {pl \in (1 .. Len(book)) \X (1 .. MaxBookCalls) :
     /\ pl[2] <= Len(book[pl[1]])
     /\ isEqualPrice(order, book[pl[1]][1])
     /\ order.order_id = book[pl[1]][pl[2]].order_id}

\* cancelOrder: the first of these places, which the two loops come to.
CancelPlace(order, book) ==
  CHOOSE pl \in CancelPlaces(order, book) :
    \A other \in CancelPlaces(order, book) :
      pl[1] < other[1] \/ (pl[1] = other[1] /\ pl[2] <= other[2])

\* Variant: the whole price level goes with the order.
BookAfterCancel_Level(book, i, ci) == Remove(book, i)

\* cancelOrder: the side of the book after book[i].pop(ci).
BookAfterCancel(book, i, ci) ==
  IF Len(book[i]) = 1 THEN Remove(book, i)
                      ELSE [book EXCEPT ![i] = Remove(@, ci)]

\* cancelOrder(order)
CancelOrder(order) ==
  /\ bpc = "idle"
  /\ norders + ncancels < MaxBookCalls
  /\ ncancels' = ncancels + 1
  /\ bcall' = [op |-> "cancelOrder", order |-> order]
  /\ LET book == OwnSide(order) IN
       IF CancelPlaces(order, book) = {}
         THEN /\ sent' = <<>>
              /\ UNCHANGED <<bids, asks>>
         ELSE LET i == CancelPlace(order, book)[1]
                  ci == CancelPlace(order, book)[2]
                  cancelled_order == book[i][ci]
              IN /\ IF order.is_buy_order
                      THEN bids' = BookAfterCancel(bids, i, ci) /\ asks' = asks
                      ELSE asks' = BookAfterCancel(asks, i, ci) /\ bids' = bids
                 /\ sent' = <<Message(order.agent_id, "ORDER_CANCELLED",
                                      cancelled_order)>>
  /\ UNCHANGED <<bpc, last_trade, new_order, executed, norders>>
  /\ UNCHANGED vars

\* The agent of the next order: the book treats all agents alike, so the
\* first order is taken to be agent 0's.
NextAgents == IF norders = 0 THEN {0} ELSE Agents

\* The orders the agents bring to the book: LimitOrder(agent_id, ..., symbol,
\* quantity, is_buy_order, limit_price), numbered in the order of arrival
\* (the book compares order ids for equality only).
NewOrders ==
  {LimitOrder(norders + 1, a, Symbol, q, b, p) :
     a \in NextAgents, q \in Quantities, b \in BOOLEAN, p \in Prices}
    \cup {LimitOrder(norders + 1, 0, c[1], c[2], b, OpenPrice) :
            c \in BadChoices, b \in BOOLEAN}

\* The orders resting in the book.
Resting ==
  {book[i][k] : <<book, i, k>> \in
     {t \in {bids, asks} \X (1 .. MaxBookCalls) \X (1 .. MaxBookCalls) :
        t[2] <= Len(t[1]) /\ t[3] <= Len(t[1][t[2]])}}

\* The orders the agents ask to cancel. A request is the agent's record of an
\* order: of one resting in the book, under the name of either agent and
\* with the quantity left or the quantity before a partial execution; or
\* with another side or price than the resting order of that id has; or of
\* an order that does not rest in the book.
CancelledOrders ==
  UNION {{[o EXCEPT !.agent_id = a, !.quantity = q] :
            a \in Agents, q \in {o.quantity, 2}} : o \in Resting}
    \cup {[o EXCEPT !.is_buy_order = ~@] : o \in Resting}
    \cup {[o EXCEPT !.limit_price = CHOOSE p \in Prices : p # @] : o \in Resting}
    \cup {LimitOrder(id, 0, Symbol, 1, TRUE, OpenPrice) :
            id \in (1 .. norders) \ {o.order_id : o \in Resting}}

\* The book as its owner left it before the first order: last_trade is None
\* as constructed, or has been set to the opening price.
InitBook ==
  /\ KernelConstructed
  /\ \E trade \in {None, OpenPrice} : BookConstructed(trade)
  /\ TradersConstructed

NextBook ==
  \/ \E o \in NewOrders : HandleLimitOrder(o) /\ UNCHANGED traderVars
  \/ ExecuteStep /\ UNCHANGED traderVars
  \/ AcceptStep /\ UNCHANGED traderVars
  \/ \E o \in CancelledOrders : CancelOrder(o) /\ UNCHANGED traderVars

SpecBook == InitBook /\ [][NextBook]_allVars

\* ============================================ the trading agent's code
\* The variables of the traders other than the two message channels, which
\* belong to the kernel.
traderState ==
  <<tpc, holdings, orders, trader_last_trade, daily_close_price, mkt_open,
    mkt_close, mkt_closed, first_wake, next_order_id, submitted, ntcalls,
    nreceived, tsent, tcall, state, nwakeups>>

\* del d[key]
Del(d, key) == [k \in DOMAIN d \ {key} |-> d[k]]

\* self.sendMessage(self.exchangeID, Message(body)), as a kernel call.
SendCall(body) == [call |-> "sendMessage", recipient |-> ExchangeID, body |-> body]

\* self.setWakeup(requestedTime), as a kernel call.
WakeupCall(requestedTime) ==
  [call |-> "setWakeup", recipient |-> None,
   body |-> [msg |-> "None", time |-> requestedTime]]

\* The symbols of a holdings dict: every key but CASH.
SymbolsHeld(h) == DOMAIN h \ {"CASH"}

\* markToMarket(holdings) raises KeyError at self.last_trade[symbol]: no
\* last trade price of a symbol of the holdings is known to the trader.
MarkToMarketRaises(a, h) ==
  \E symbol \in SymbolsHeld(h) : symbol \notin DOMAIN trader_last_trade[a]

RECURSIVE ValueOf(_, _, _)
\* markToMarket: the sum of self.last_trade[symbol] * shares over symbols.
ValueOf(a, h, symbols) ==
  IF symbols = {} THEN 0
  ELSE LET symbol == CHOOSE s \in symbols : TRUE
       IN trader_last_trade[a][symbol] * h[symbol]
            + ValueOf(a, h, symbols \ {symbol})

\* markToMarket(holdings): the cash and the value of the shares.
markToMarket(a, h) == h["CASH"] + ValueOf(a, h, SymbolsHeld(h))

\* at_risk = self.markToMarket(holdings) - holdings['CASH']
AtRisk(a, h) == markToMarket(a, h) - h["CASH"]

\* q = order.quantity if order.is_buy_order else -order.quantity
SignedQuantity(order) ==
  IF order.is_buy_order THEN order.quantity ELSE -order.quantity

\* if sym in holdings: holdings[sym] += q else: holdings[sym] = q
Credit(h, symbol, q) ==
  IF symbol \in DOMAIN h THEN [h EXCEPT ![symbol] = @ + q]
                         ELSE (symbol :> q) @@ h

\* placeLimitOrder: new_holdings
NewHoldings(h, order) == Credit(h, order.symbol, SignedQuantity(order))

\* Variant: an order is permitted only when it does not raise the at-risk
\* capital.
Permitted_RiskLower(a, order) ==
  AtRisk(a, NewHoldings(holdings[a], order)) <= AtRisk(a, holdings[a])

\* Variant: every order is permitted.
Permitted_Always(a, order) == TRUE

\* placeLimitOrder: the order is not ignored for the at-risk constraints.
Permitted(a, order) ==
  LET at_risk == AtRisk(a, holdings[a])
      new_at_risk == AtRisk(a, NewHoldings(holdings[a], order))
  IN ~((new_at_risk > at_risk) /\ (new_at_risk > StartingCash))

\* placeLimitOrder(symbol, quantity, is_buy_order, limit_price) of trader a.
PlaceLimitOrder(a, symbol, quantity, is_buy_order, limit_price) ==
  LET order == LimitOrder(next_order_id, a, symbol, quantity, is_buy_order,
                          limit_price)
      raises == /\ quantity > 0
                /\ \/ MarkToMarketRaises(a, holdings[a])
                   \/ MarkToMarketRaises(a, NewHoldings(holdings[a], order))
      placed == quantity > 0 /\ ~raises /\ Permitted(a, order)
      body == [msg |-> "LIMIT_ORDER", sender |-> a, order |-> order]
  IN /\ tpc = "running"
     /\ ntcalls < MaxBookCalls
     /\ ntcalls' = ntcalls + 1
     /\ next_order_id' = next_order_id + 1
     /\ tcall' = [op |-> "placeLimitOrder", agent |-> a, order |-> order,
                  body |-> [msg |-> "None"]]
     /\ tpc' = IF raises THEN "raised" ELSE tpc
     /\ orders' = IF placed THEN [orders EXCEPT ![a] = (order.order_id :> order) @@ @]
                            ELSE orders
     /\ submitted' = IF placed THEN (order.order_id :> order) @@ submitted
                               ELSE submitted
     /\ tsent' = IF placed THEN <<SendCall(body)>> ELSE <<>>
     /\ UNCHANGED <<holdings, trader_last_trade, daily_close_price, mkt_open,
                    mkt_close, mkt_closed, first_wake, nreceived, book_before, roundtrip>>
     /\ UNCHANGED <<vars, bookVars, state, nwakeups>>

\* cancelOrder(order) of trader a.
TraderCancelOrder(a, order) ==
  LET body == [msg |-> "CANCEL_ORDER", sender |-> a, order |-> order] IN
    /\ tpc = "running"
    /\ ntcalls < MaxBookCalls
    /\ ntcalls' = ntcalls + 1
    /\ tcall' = [op |-> "cancelOrder", agent |-> a, order |-> order,
                 body |-> [msg |-> "None"]]
    /\ tsent' = <<SendCall(body)>>
    /\ UNCHANGED <<tpc, holdings, orders, trader_last_trade, daily_close_price,
                   mkt_open, mkt_close, mkt_closed, first_wake, next_order_id,
                   submitted, nreceived, book_before, roundtrip>>
    /\ UNCHANGED <<vars, bookVars, state, nwakeups>>

\* getLastTrade(symbol) of trader a.
GetLastTrade(a, symbol) ==
  LET body == [msg |-> "QUERY_LAST_TRADE", sender |-> a, symbol |-> symbol] IN
    /\ tpc = "running"
    /\ tcall' = [op |-> "getLastTrade", agent |-> a, order |-> NoOrder,
                 body |-> [msg |-> "None"]]
    /\ tsent' = <<SendCall(body)>>
    /\ UNCHANGED <<tpc, holdings, orders, trader_last_trade, daily_close_price,
                   mkt_open, mkt_close, mkt_closed, first_wake, next_order_id,
                   submitted, ntcalls, nreceived, book_before, roundtrip>>
    /\ UNCHANGED <<vars, bookVars, state, nwakeups>>

\* wakeup(currentTime) of trader a.
Wakeup(a) ==
  LET ask == <<[msg |-> "WHEN_MKT_OPEN", sender |-> a],
               [msg |-> "WHEN_MKT_CLOSE", sender |-> a]>>
  IN /\ tpc = "running"
     /\ tcall' = [op |-> "wakeup", agent |-> a, order |-> NoOrder,
                  body |-> [msg |-> "None"]]
     /\ first_wake' = [first_wake EXCEPT ![a] = FALSE]
     /\ IF mkt_open[a] = None
          THEN tsent' = <<SendCall(ask[1]), SendCall(ask[2])>>
          ELSE tsent' = <<>>
     /\ UNCHANGED <<tpc, holdings, orders, trader_last_trade, daily_close_price,
                    mkt_open, mkt_close, mkt_closed, next_order_id, ntcalls,
                    submitted, nreceived, book_before, roundtrip>>
     /\ UNCHANGED <<vars, bookVars, state, nwakeups>>

\* getHoldings(symbol): zero for any symbol not held.
getHoldings(h, symbol) == IF symbol \in DOMAIN h THEN h[symbol] ELSE 0

\* Variant: the cash is moved at the limit price of the order.
HoldingsAfterExecuted_LimitPrice(h, order) ==
  LET qty == SignedQuantity(order)
      sym == order.symbol
      credited == Credit(h, sym, qty)
      kept == IF credited[sym] = 0 THEN Del(credited, sym) ELSE credited
  IN [kept EXCEPT !["CASH"] = @ - (qty * order.limit_price)]

\* Variant: an entry that reaches 0 shares is kept.
HoldingsAfterExecuted_KeepZero(h, order) ==
  LET qty == SignedQuantity(order)
      credited == Credit(h, order.symbol, qty)
  IN [credited EXCEPT !["CASH"] = @ - (qty * order.fill_price)]

\* orderExecuted(order): self.holdings after the execution.
HoldingsAfterExecuted(h, order) ==
  LET qty == SignedQuantity(order)
      sym == order.symbol
      credited == Credit(h, sym, qty)
      kept == IF credited[sym] = 0 THEN Del(credited, sym) ELSE credited
  IN [kept EXCEPT !["CASH"] = @ - (qty * order.fill_price)]

\* Variant: a part execution leaves the open order as it is.
OrdersAfterExecuted_Whole(os, order) ==
  IF order.order_id \in DOMAIN os /\ order.quantity >= os[order.order_id].quantity
    THEN Del(os, order.order_id)
    ELSE os

\* orderExecuted(order): self.orders after the execution.
OrdersAfterExecuted(os, order) ==
  IF order.order_id \in DOMAIN os
    THEN IF order.quantity >= os[order.order_id].quantity
           THEN Del(os, order.order_id)
           ELSE [os EXCEPT ![order.order_id].quantity = @ - order.quantity]
    ELSE os

\* Variant: the cancellation of an order leaves no open order.
orderCancelled_All(os, order) == EmptyDict

\* orderCancelled(order): self.orders after the cancellation.
orderCancelled(os, order) ==
  IF order.order_id \in DOMAIN os THEN Del(os, order.order_id) ELSE os

\* Variant: a reply takes over the flag of the exchange as it is.
MktClosedAfter_Flag(closed, m) ==
  IF m.msg = "MKT_CLOSED" THEN TRUE
  ELSE IF m.msg \in {"QUERY_LAST_TRADE", "QUERY_SPREAD"} THEN m.mkt_closed
  ELSE closed

\* receiveMessage: self.mkt_closed after the message (marketClosed, and
\* "if msg.body['mkt_closed']: self.mkt_closed = True").
MktClosedAfter(closed, m) ==
  IF m.msg = "MKT_CLOSED" THEN TRUE
  ELSE IF m.msg \in {"QUERY_LAST_TRADE", "QUERY_SPREAD"} /\ m.mkt_closed THEN TRUE
  ELSE closed

\* queryLastTrade(symbol, price): int(round(price * 100)), of an int price.
LastTradeOf(price) == Round(price * 100, 1)

\* Variant: the wakeup is asked for at every message received while the
\* market hours are known.
MktOpenWakeup_Whenever(had_mkt_hours, have_mkt_hours, open) ==
  IF have_mkt_hours THEN <<WakeupCall(open + WakeFrequency)>> ELSE <<>>

\* receiveMessage: "if have_mkt_hours and not had_mkt_hours:
\* self.setWakeup(self.mkt_open + ns_offset)", the kernel calls it makes.
MktOpenWakeup(had_mkt_hours, have_mkt_hours, open) ==
  IF have_mkt_hours /\ ~had_mkt_hours
    THEN <<WakeupCall(open + WakeFrequency)>>
    ELSE <<>>

\* receiveMessage(currentTime, msg) of trader a, for the message m.
ReceiveMessage(a, m) ==
  LET had_mkt_hours == mkt_open[a] # None /\ mkt_close[a] # None
      open == IF m.msg = "WHEN_MKT_OPEN" THEN m.data ELSE mkt_open[a]
      close == IF m.msg = "WHEN_MKT_CLOSE" THEN m.data ELSE mkt_close[a]
      have_mkt_hours == open # None /\ close # None
      closed == MktClosedAfter(mkt_closed[a], m)
      priced == m.msg \in {"QUERY_LAST_TRADE", "QUERY_SPREAD"}
  IN /\ tpc = "running"
     /\ tcall' = [op |-> "receiveMessage", agent |-> a, order |-> NoOrder,
                  body |-> m]
     /\ mkt_open' = [mkt_open EXCEPT ![a] = open]
     /\ mkt_close' = [mkt_close EXCEPT ![a] = close]
     /\ mkt_closed' = [mkt_closed EXCEPT ![a] = closed]
     /\ holdings' =
          IF m.msg = "ORDER_EXECUTED"
            THEN [holdings EXCEPT ![a] = HoldingsAfterExecuted(@, m.order)]
            ELSE holdings
     /\ orders' =
          IF m.msg = "ORDER_EXECUTED"
            THEN [orders EXCEPT ![a] = OrdersAfterExecuted(@, m.order)]
          ELSE IF m.msg = "ORDER_CANCELLED"
            THEN [orders EXCEPT ![a] = orderCancelled(@, m.order)]
          ELSE orders
     /\ trader_last_trade' =
          IF priced
            THEN [trader_last_trade EXCEPT
                    ![a] = (m.symbol :> LastTradeOf(m.data)) @@ @]
            ELSE trader_last_trade
     /\ daily_close_price' =
          IF priced /\ closed
            THEN [daily_close_price EXCEPT
                    ![a] = (m.symbol :> LastTradeOf(m.data)) @@ @]
            ELSE daily_close_price
     /\ tsent' = MktOpenWakeup(had_mkt_hours, have_mkt_hours, open)
     /\ UNCHANGED <<tpc, first_wake, next_order_id, ntcalls, submitted>>
     /\ UNCHANGED <<vars, bookVars, state, nwakeups>>

\* ------------------------------------------------- the market: the exchange
\* The exchange hands a LIMIT_ORDER to the order book.
ExchangeLimitOrder ==
  /\ tpc = "running"
  /\ toExchange # <<>>
  /\ Head(toExchange).msg = "LIMIT_ORDER"
  /\ HandleLimitOrder(Head(toExchange).order)
  /\ toExchange' = Tail(toExchange)
  /\ book_before' = [bids |-> bids, asks |-> asks, last_trade |-> last_trade]
  /\ UNCHANGED <<inflight, roundtrip, traderState>>

\* The messages the order book sent in a step are on their way.
BookSent == SubSeq(sent', Len(sent) + 1, Len(sent'))

\* The exchange hands a CANCEL_ORDER to the order book.
ExchangeCancelOrder ==
  /\ tpc = "running"
  /\ toExchange # <<>>
  /\ Head(toExchange).msg = "CANCEL_ORDER"
  /\ CancelOrder(Head(toExchange).order)
  /\ toExchange' = Tail(toExchange)
  /\ inflight' = inflight \o sent'
  /\ roundtrip' =
       IF /\ sent' # <<>>
          /\ sent'[1].order.quantity = submitted[sent'[1].order.order_id].quantity
         THEN roundtrip \cup {sent'[1].order.order_id}
         ELSE roundtrip
  /\ UNCHANGED <<book_before, traderState>>

\* The exchange replies to a QUERY_LAST_TRADE with the last trade of the book.
ExchangeQueryLastTrade ==
  /\ tpc = "running"
  /\ bpc = "idle"
  /\ toExchange # <<>>
  /\ Head(toExchange).msg = "QUERY_LAST_TRADE"
  /\ toExchange' = Tail(toExchange)
  /\ inflight' = Append(inflight,
       [recipient |-> Head(toExchange).sender, msg |-> "QUERY_LAST_TRADE",
        symbol |-> Head(toExchange).symbol, data |-> last_trade,
        mkt_closed |-> FALSE])
  /\ UNCHANGED <<book_before, roundtrip, traderState>>
  /\ UNCHANGED <<vars, bookVars>>

\* The kernel hands a trader the oldest of the messages on their way: with
\* equal latencies and no latency noise they arrive in the order sent.
Deliver ==
  /\ bpc = "idle"
  /\ inflight # <<>>
  /\ ReceiveMessage(Head(inflight).recipient, Head(inflight))
  /\ inflight' = Tail(inflight)
  /\ UNCHANGED <<nreceived, toExchange, book_before, roundtrip>>

\* The orders the traders place in the market, <<quantity, is_buy_order,
\* limit_price>>: at the opening price, a buy above it and one for no shares.
MarketChoices ==
  (Quantities \X BOOLEAN \X {OpenPrice})
    \cup {<<1, TRUE, OpenPrice + 1>>, <<0, TRUE, OpenPrice>>}

\* The trader of the next order: the traders are alike, so the first order
\* is taken to be trader 0's.
NextTraders == IF next_order_id = 1 THEN {0} ELSE Agents

\* The open orders of trader a.
OpenOrders(a) == {orders[a][id] : id \in DOMAIN orders[a]}

\* A trader acts when the exchange has taken its last message.
TraderMayAct == bpc = "idle" /\ toExchange = <<>>

\* The messages of the trader's method are on their way to the exchange.
TraderSent ==
  /\ toExchange' = toExchange \o [i \in 1 .. Len(tsent') |-> tsent'[i].body]
  /\ inflight' = inflight

\* The traders start with the market hours unknown and no price known; the
\* exchange has set the last trade of its book to the opening price.
InitMarket ==
  /\ KernelConstructed
  /\ BookConstructed(OpenPrice)
  /\ TradersConstructed

NextMarket ==
  \/ \E a \in NextTraders, c \in MarketChoices :
       TraderMayAct /\ PlaceLimitOrder(a, Symbol, c[1], c[2], c[3]) /\ TraderSent
  \/ \E a \in Agents : \E o \in OpenOrders(a) :
       TraderMayAct /\ TraderCancelOrder(a, o) /\ TraderSent
  \/ \E a \in Agents :
       /\ TraderMayAct
       /\ Symbol \notin DOMAIN trader_last_trade[a]
       /\ \A i \in 1 .. Len(inflight) : inflight[i].recipient # a
       /\ GetLastTrade(a, Symbol)
       /\ TraderSent
  \/ ExchangeLimitOrder
  \/ /\ tpc = "running"
     /\ ExecuteStep
     /\ inflight' = inflight \o BookSent
     /\ UNCHANGED <<toExchange, book_before, roundtrip, traderState>>
  \/ /\ tpc = "running"
     /\ AcceptStep
     /\ inflight' = inflight \o BookSent
     /\ UNCHANGED <<toExchange, book_before, roundtrip, traderState>>
  \/ ExchangeCancelOrder
  \/ ExchangeQueryLastTrade
  \/ Deliver

SpecMarket == InitMarket /\ [][NextMarket]_allVars

\* ---------------------------------------------- a trader and its messages
\* The trader observed.
Trader == 0

\* The orders the trader places: <<symbol, quantity, is_buy_order,
\* limit_price>>.
TraderChoices ==
  ({Symbol} \X Quantities \X BOOLEAN \X {OpenPrice})
    \cup {<<Symbol, 0, TRUE, OpenPrice>>}

\* The messages the kernel may hand to the trader. About an order the
\* trader sent to the exchange: its acceptance, an execution of a part or the
\* whole of it at its limit price, its cancellation with a part or the whole
\* left. The market hours, the closing of the market, and a last trade price
\* with or without the mark that the market has closed. (Latency noise lets
\* a message overtake another, so no order among them is assumed.)
ExchangeMessages ==
  UNION {{Message(Trader, "ORDER_ACCEPTED", o)}
           \cup {Message(Trader, "ORDER_EXECUTED",
                         [o EXCEPT !.quantity = q, !.fill_price = o.limit_price]) :
                   q \in 1 .. o.quantity}
           \cup {Message(Trader, "ORDER_CANCELLED", [o EXCEPT !.quantity = q]) :
                   q \in 1 .. o.quantity} :
         o \in {submitted[id] : id \in DOMAIN submitted}}
    \cup {[recipient |-> Trader, msg |-> "WHEN_MKT_OPEN", data |-> MktOpen],
          [recipient |-> Trader, msg |-> "WHEN_MKT_CLOSE", data |-> MktClose],
          [recipient |-> Trader, msg |-> "MKT_CLOSED"]}
    \cup {[recipient |-> Trader, msg |-> "QUERY_LAST_TRADE", symbol |-> Symbol,
           data |-> p, mkt_closed |-> c] :
            p \in {OpenPrice - 1, OpenPrice}, c \in BOOLEAN}
    \cup {[recipient |-> Trader, msg |-> "QUERY_SPREAD", symbol |-> Symbol,
           data |-> OpenPrice, mkt_closed |-> c] : c \in BOOLEAN}

\* The trader has calls and messages left.
TraderMayGo == ntcalls + nreceived < MaxMessages

\* The trader alone: the kernel takes its messages to the exchange and hands
\* it the messages of the exchange.
NextTrader ==
  \/ /\ Wakeup(Trader)
     /\ UNCHANGED <<toExchange, inflight>>
  \/ \E c \in TraderChoices :
       /\ TraderMayGo
       /\ PlaceLimitOrder(Trader, c[1], c[2], c[3], c[4])
       /\ UNCHANGED <<toExchange, inflight>>
  \/ \E o \in OpenOrders(Trader) :
       /\ TraderMayGo
       /\ TraderCancelOrder(Trader, o)
       /\ UNCHANGED <<toExchange, inflight>>
  \/ \E m \in ExchangeMessages :
       /\ TraderMayGo
       /\ nreceived' = nreceived + 1
       /\ ReceiveMessage(Trader, m)
       /\ UNCHANGED <<toExchange, inflight, book_before, roundtrip>>

SpecTrader == Init /\ [][NextTrader]_allVars

\* ------------------------------- a ZeroIntelligenceAgent and its events
\* The agent observed is agent Trader, a ZeroIntelligenceAgent for Symbol
\* (agent/ZeroIntelligenceAgent.py). Its estimates of the fundamental value
\* (r_t, sigma_t, prev_wake_time, theta) and the bids and asks it knows decide
\* the limit price of an order and nothing else, so the limit price is any of
\* ZIPrices; q_max is above the shares the agent can come to hold in a run, so
\* the side of an order is the flip of a coin.

\* The kernel's event for a wakeup the agent asked for.
WakeupEvent(a) == [recipient |-> a, msg |-> "WAKEUP"]

\* self.setWakeup(currentTime + delta_time), as a kernel call: the random
\* delay is any, and the time asked for is not followed.
NextWakeupCall ==
  [call |-> "setWakeup", recipient |-> None, body |-> [msg |-> "None"]]

RECURSIVE CancelCalls(_, _)
\* cancelOrders(): a cancelOrder(order), which sends a CANCEL_ORDER, for every
\* order of self.orders, in the order of the dict (that of the order ids).
CancelCalls(a, os) ==
  IF DOMAIN os = {} THEN <<>>
  ELSE LET id == CHOOSE i \in DOMAIN os : \A j \in DOMAIN os : i <= j
       IN <<SendCall([msg |-> "CANCEL_ORDER", sender |-> a, order |-> os[id]])>>
            \o CancelCalls(a, Del(os, id))

\* wakeup(currentTime) of the ZeroIntelligenceAgent a.
ZIWakeup(a) ==
  LET ask == <<[msg |-> "WHEN_MKT_OPEN", sender |-> a],
               [msg |-> "WHEN_MKT_CLOSE", sender |-> a]>>
      discovery == IF mkt_open[a] = None
                     THEN <<SendCall(ask[1]), SendCall(ask[2])>>
                     ELSE <<>>
      have_mkt_hours == mkt_open[a] # None /\ mkt_close[a] # None
      have_close == Symbol \in DOMAIN daily_close_price[a]
      spread == SendCall([msg |-> "QUERY_SPREAD", sender |-> a,
                          symbol |-> Symbol])
      cancels == CancelCalls(a, orders[a])
      stops == ~have_mkt_hours \/ (mkt_closed[a] /\ have_close)
  IN /\ tpc = "running"
     /\ tcall' = [op |-> "wakeup", agent |-> a, order |-> NoOrder,
                  body |-> [msg |-> "None"]]
     /\ first_wake' = [first_wake EXCEPT ![a] = FALSE]
     /\ nwakeups' = nwakeups + 1
     /\ tsent' = IF stops THEN discovery
                 ELSE IF mkt_closed[a] THEN <<NextWakeupCall, spread>>
                 ELSE <<NextWakeupCall>> \o cancels \o <<spread>>
     /\ ntcalls' = IF stops \/ mkt_closed[a] THEN ntcalls
                                             ELSE ntcalls + Len(cancels)
     /\ state' = IF stops THEN state ELSE "AWAITING_SPREAD"
     /\ UNCHANGED <<tpc, holdings, orders, trader_last_trade, daily_close_price,
                    mkt_open, mkt_close, mkt_closed, next_order_id, submitted,
                    nreceived, book_before, roundtrip>>
     /\ UNCHANGED <<vars, bookVars>>

\* Variant: the reply awaited leads to an order whether or not the market has
\* closed.
PlacesOrder_Closed(st, m, closed) ==
  st = "AWAITING_SPREAD" /\ m.msg = "QUERY_SPREAD"

\* receiveMessage: placeOrder() is called: "if self.state ==
\* 'AWAITING_SPREAD': if msg.body['msg'] == 'QUERY_SPREAD': if
\* self.mkt_closed: return".
PlacesOrder(st, m, closed) ==
  st = "AWAITING_SPREAD" /\ m.msg = "QUERY_SPREAD" /\ ~closed

\* placeLimitOrder: the order is not ignored for the at-risk constraints, by
\* holdings h of Symbol alone valued at the last trade price.
PermittedAt(h, price, order) ==
  LET at_risk == price * getHoldings(h, Symbol)
      new_at_risk == price * getHoldings(NewHoldings(h, order), Symbol)
  IN ~((new_at_risk > at_risk) /\ (new_at_risk > StartingCash))

\* receiveMessage(currentTime, msg) of the ZeroIntelligenceAgent a, for the
\* message m: TradingAgent.receiveMessage, then placeOrder() on the reply
\* awaited, with the side and the limit price it comes to.
ZIReceiveMessage(a, m, is_buy_order, limit_price) ==
  LET had_mkt_hours == mkt_open[a] # None /\ mkt_close[a] # None
      open == IF m.msg = "WHEN_MKT_OPEN" THEN m.data ELSE mkt_open[a]
      close == IF m.msg = "WHEN_MKT_CLOSE" THEN m.data ELSE mkt_close[a]
      have_mkt_hours == open # None /\ close # None
      closed == MktClosedAfter(mkt_closed[a], m)
      priced == m.msg \in {"QUERY_LAST_TRADE", "QUERY_SPREAD"}
      places == PlacesOrder(state, m, closed)
      order == LimitOrder(next_order_id, a, Symbol, 1, is_buy_order,
                          limit_price)
      placed == places /\ PermittedAt(holdings[a], LastTradeOf(m.data), order)
      body == [msg |-> "LIMIT_ORDER", sender |-> a, order |-> order]
      after == IF m.msg = "ORDER_EXECUTED"
                 THEN OrdersAfterExecuted(orders[a], m.order)
               ELSE IF m.msg = "ORDER_CANCELLED"
                 THEN orderCancelled(orders[a], m.order)
               ELSE orders[a]
  IN /\ tpc = "running"
     /\ tcall' = [op |-> "receiveMessage", agent |-> a, order |-> NoOrder,
                  body |-> m]
     /\ mkt_open' = [mkt_open EXCEPT ![a] = open]
     /\ mkt_close' = [mkt_close EXCEPT ![a] = close]
     /\ mkt_closed' = [mkt_closed EXCEPT ![a] = closed]
     /\ holdings' =
          IF m.msg = "ORDER_EXECUTED"
            THEN [holdings EXCEPT ![a] = HoldingsAfterExecuted(@, m.order)]
            ELSE holdings
     /\ orders' = [orders EXCEPT
                     ![a] = IF placed THEN (order.order_id :> order) @@ after
                                      ELSE after]
     /\ trader_last_trade' =
          IF priced
            THEN [trader_last_trade EXCEPT
                    ![a] = (m.symbol :> LastTradeOf(m.data)) @@ @]
            ELSE trader_last_trade
     /\ daily_close_price' =
          IF priced /\ closed
            THEN [daily_close_price EXCEPT
                    ![a] = (m.symbol :> LastTradeOf(m.data)) @@ @]
            ELSE daily_close_price
     /\ next_order_id' = IF places THEN next_order_id + 1 ELSE next_order_id
     /\ ntcalls' = IF places THEN ntcalls + 1 ELSE ntcalls
     /\ submitted' = IF placed THEN (order.order_id :> order) @@ submitted
                               ELSE submitted
     /\ tsent' = MktOpenWakeup(had_mkt_hours, have_mkt_hours, open)
                   \o (IF placed THEN <<SendCall(body)>> ELSE <<>>)
     /\ state' = IF places THEN "AWAITING_WAKEUP" ELSE state
     /\ UNCHANGED <<tpc, first_wake, nwakeups>>
     /\ UNCHANGED <<vars, bookVars>>

\* What the exchange may send on a message r of the agent: the market hours;
\* the last trade price with or without the mark that the market has closed;
\* for an order its acceptance, its execution at its limit price, or
\* MKT_CLOSED; for a cancellation the order cancelled, the order executed
\* before the cancellation came, or nothing.
ExchangeAnswers(r) ==
  IF r.msg = "WHEN_MKT_OPEN"
    THEN {<<[recipient |-> r.sender, msg |-> "WHEN_MKT_OPEN", data |-> MktOpen]>>}
  ELSE IF r.msg = "WHEN_MKT_CLOSE"
    THEN {<<[recipient |-> r.sender, msg |-> "WHEN_MKT_CLOSE", data |-> MktClose]>>}
  ELSE IF r.msg = "QUERY_SPREAD"
    THEN {<<[recipient |-> r.sender, msg |-> "QUERY_SPREAD",
             symbol |-> r.symbol, data |-> OpenPrice, mkt_closed |-> c]>> :
            c \in BOOLEAN}
  ELSE IF r.msg = "LIMIT_ORDER"
    THEN {<<Message(r.sender, "ORDER_ACCEPTED", r.order)>>,
          <<Message(r.sender, "ORDER_EXECUTED",
                    [r.order EXCEPT !.fill_price = r.order.limit_price])>>,
          <<[recipient |-> r.sender, msg |-> "MKT_CLOSED"]>>}
  ELSE {<<Message(r.sender, "ORDER_CANCELLED", r.order)>>,
        <<Message(r.sender, "ORDER_EXECUTED",
                  [r.order EXCEPT !.fill_price = r.order.limit_price])>>,
        <<>>}

\* The kernel calls of the agent's callback take effect: its messages are on
\* their way to the exchange, the wakeups it asked for on their way to it
\* (the wakeups are kept ahead of the messages in inflight).
ZISent(i) ==
  LET sends == SelectSeq(tsent', LAMBDA c : c.call = "sendMessage")
      wakes == SelectSeq(tsent', LAMBDA c : c.call = "setWakeup")
  IN /\ toExchange' = toExchange \o [k \in 1 .. Len(sends) |-> sends[k].body]
     /\ inflight' = [k \in 1 .. Len(wakes) |-> WakeupEvent(Trader)]
                      \o Remove(inflight, i)

\* The events the kernel may hand the agent next: a wakeup, whose random
\* delay lets it come before or after a message, or the oldest message (the
\* latency is the same for all of them, without noise).
NextEvents ==
  {i \in 1 .. Len(inflight) :
     \A k \in 1 .. i - 1 :
       (inflight[k].msg = "WAKEUP") # (inflight[i].msg = "WAKEUP")}

\* The limit prices placeOrder() comes to.
ZIPrices == {OpenPrice, OpenPrice + 1}

\* The agent has callbacks left.
ZIMayGo == nwakeups + nreceived < MaxZICalls

\* kernelStarting(startTime) of the agent, which asks for a wakeup at
\* startTime, when runner() has called kernelInitializing.
ZIKernelStarting ==
  /\ pc = "kernelInitializing"
  /\ pc' = "loop"
  /\ inflight' = <<WakeupEvent(Trader)>>
  /\ UNCHANGED <<idx, messages, currentTime, agentCurrentTimes,
                 agentComputationDelays, currentAgentAdditionalDelay,
                 callback, nextId, ncalls, call, deliveries, lastEnd,
                 lifecycle>>
  /\ UNCHANGED <<bookVars, traderState, toExchange, book_before, roundtrip>>

\* The kernel hands the agent one of the events it may hand it next, and
\* the exchange answers the oldest of the messages on their way to it.
NextZI ==
  \/ ZIKernelStarting
  \/ \E i \in NextEvents :
       /\ ZIMayGo
       /\ inflight[i].msg = "WAKEUP"
       /\ ZIWakeup(Trader)
       /\ ZISent(i)
  \/ \E i \in NextEvents : \E is_buy_order \in BOOLEAN, p \in ZIPrices :
       /\ ZIMayGo
       /\ inflight[i].msg # "WAKEUP"
       /\ nreceived' = nreceived + 1
       /\ ZIReceiveMessage(Trader, inflight[i], is_buy_order, p)
       /\ ZISent(i)
       /\ UNCHANGED <<book_before, roundtrip>>
  \/ /\ toExchange # <<>>
     /\ \E answer \in ExchangeAnswers(Head(toExchange)) :
          inflight' = inflight \o answer
     /\ toExchange' = Tail(toExchange)
     /\ UNCHANGED <<vars, bookVars, traderState, book_before, roundtrip>>

SpecZI == Init /\ [][NextZI]_allVars

\* ================================================================ claims
\* A wakeup or receiveMessage callback is executing.
InCallback == pc = "callback"

\* The state in which the callback is entered: no kernel call made in it yet.
AtCallbackEntry == InCallback /\ call = NoCall

\* This step is a kernel call of an agent (call' describes it).
IsCall(op) == ncalls' = ncalls + 1 /\ call'.op = op

\* This step is one iteration of the run loop that pops an entry.
IsPop == pc = "loop" /\ pc' \in {"loop", "callback"}

\* The positions of the queue holding the event with this id.
PositionsOf(q, id) == {i \in 1 .. Len(q) : q[i].id = id}

\* -------------------------------------------------------------------- C1
\* C1: whenever a wakeup or receiveMessage callback is entered (and as long
\* as it runs), the time passed to it equals the recipient's agent clock and
\* the kernel's current time.
C1_NoPastAction ==
  InCallback =>
    /\ callback.time = agentCurrentTimes[callback.agent]
    /\ callback.time = currentTime

\* A first callback of an agent later than the start time: its clock, still
\* at the start time when the event was popped, was moved to the event's time.
C1_Witness ==
  /\ AtCallbackEntry
  /\ lastEnd[callback.agent] = None
  /\ callback.time > StartTime

\* -------------------------------------------------------------------- C2
\* C2: the kernel's current time never decreases once it is set: every
\* popped event's time is at least the current time before the pop, also
\* for wakeups enqueued during kernelStarting.
C2_MonotonicTime ==
  [][currentTime # None => currentTime' >= currentTime]_vars

\* -------------------------------------------------------------------- C3
\* C3: a callback on an agent is never invoked before the end of that
\* agent's previous computation, t0 + computation delay + additional delay.
C3_BusyRule ==
  (InCallback /\ lastEnd[callback.agent] # None) =>
    callback.time >= lastEnd[callback.agent]

\* A later callback of an agent for an event first scheduled inside its busy
\* period, invoked exactly at the end of the previous computation.
C3_Witness ==
  /\ AtCallbackEntry
  /\ lastEnd[callback.agent] # None
  /\ callback.time = lastEnd[callback.agent]
  /\ callback.earliest < lastEnd[callback.agent]

\* -------------------------------------------------------------------- C4
\* C4: no wakeup or receiveMessage callback is invoked for an event whose
\* time is greater than the stop time.
C4_HardStop == InCallback => callback.time <= StopTime

\* -------------------------------------------------------------------- C5
\* C5: an entry popped by the stop time is the earliest inserted one among the
\* entries with its time, whatever the recipients, kinds and payloads: no
\* entry with the same time was both created before it and put into the queue
\* before it.
C5_InsertionOrder ==
  [][(IsPop /\ currentTime' <= StopTime) =>
       \A i \in 1 .. Len(messages) :
         (/\ messages[i].time = currentTime'
          /\ IF pc' = "callback"
               THEN messages[i].id = callback'.id
               ELSE messages[i].id = messages'[Len(messages')].id)
         => \A j \in 1 .. (i - 1) :
              messages[j].id < messages[i].id
                => messages[j].time # messages[i].time]_vars

\* -------------------------------------------------------------------- C6
\* Every event created is in the queue exactly once or was dispatched exactly
\* once, never both, and a callback runs only for a created event.
C6_Ledger ==
  /\ Len(deliveries) = nextId
  /\ \A id \in 1 .. nextId :
       /\ deliveries[id] <= 1
       /\ Cardinality(PositionsOf(messages, id)) + deliveries[id] = 1
  /\ \A i \in 1 .. Len(messages) : messages[i].id \in 1 .. nextId
  /\ InCallback => (callback.id \in 1 .. nextId /\ deliveries[callback.id] = 1)

\* An event keeps its recipient, kind and payload while it is queued, and the
\* callback invoked is the one of that recipient and kind, with that payload;
\* a delivery is counted only by the step that invokes the callback.
C6_Step ==
  /\ \A i \in 1 .. Len(messages) : \A j \in 1 .. Len(messages') :
       messages[i].id = messages'[j].id =>
         /\ messages'[j].recipient = messages[i].recipient
         /\ messages'[j].type = messages[i].type
         /\ messages'[j].msg = messages[i].msg
  /\ (pc = "loop" /\ pc' = "callback") =>
       \E i \in 1 .. Len(messages) :
         /\ messages[i].id = callback'.id
         /\ callback'.agent = messages[i].recipient
         /\ callback'.kind = (IF messages[i].type = WAKEUP THEN "wakeup"
                                                         ELSE "receiveMessage")
         /\ callback'.msg = messages[i].msg
         /\ deliveries[callback'.id] = 0
  /\ \A id \in 1 .. nextId :
       deliveries'[id] # deliveries[id] =>
         (pc = "loop" /\ pc' = "callback" /\ callback'.id = id)

\* C6: every enqueued event is dispatched at most once, to its recipient,
\* with its kind and payload unchanged, however often it is re-queued; no
\* callback runs for an event never enqueued; an undispatched event is still
\* in the queue.
C6_ExactlyOnce == []C6_Ledger /\ [][C6_Step]_vars

\* A wakeup dispatched later than the time it was requested for: it was
\* re-queued at least once before its single dispatch.
C6_Witness ==
  /\ AtCallbackEntry
  /\ callback.kind = "wakeup"
  /\ callback.time > callback.earliest
  /\ deliveries[callback.id] = 1

\* -------------------------------------------------------------------- C7
\* The entry a successful sendMessage call appends.
C7_Sent ==
  (IsCall("sendMessage") /\ ~call'.raised) =>
    /\ Len(messages') = Len(messages) + 1
    /\ SubSeq(messages', 1, Len(messages)) = messages
    /\ LET e == messages'[Len(messages')] IN
         /\ e.type = MESSAGE
         /\ e.recipient = call'.recipient
         /\ e.msg = call'.msg
         /\ call'.noise >= 0
         /\ e.time = currentTime + agentComputationDelays[call'.sender]
                       + currentAgentAdditionalDelay + call'.arg
                       + agentLatency(call'.sender, call'.recipient)
                       + call'.noise
         /\ e.earliest = currentTime + agentComputationDelays[call'.sender]
                           + agentLatency(call'.sender, call'.recipient)

C8_BusyRequeue ==
  [][(IsPop /\ agentCurrentTimes[messages[QueueHead].recipient]
                 > messages[QueueHead].time) =>
       /\ pc' = "loop"
       /\ callback' = callback
       /\ deliveries' = deliveries
       /\ agentCurrentTimes' = agentCurrentTimes
       /\ Len(messages') = Len(messages)
       /\ LET e == messages[QueueHead]
              r == messages'[Len(messages')]
          IN  /\ r.id = e.id
              /\ r.recipient = e.recipient
              /\ r.type = e.type
              /\ r.msg = e.msg
              /\ r.time = agentCurrentTimes[e.recipient]
       /\ \A i \in 1 .. Len(messages) :
            i # QueueHead => \E j \in 1 .. Len(messages') - 1 :
                               messages'[j] = messages[i]]_vars

\* The scenario of the spec, scaled: an agent with computation delay 2 is
\* woken at the start time t0; its second wakeup, requested for t0 + 1, is
\* received at t0 + 2.
C8_Witness ==
  /\ AtCallbackEntry
  /\ callback.kind = "wakeup"
  /\ callback.earliest = StartTime + 1
  /\ callback.time = StartTime + 2
  /\ lastEnd[callback.agent] = StartTime + 2
  /\ agentComputationDelays[callback.agent] = 2

\* -------------------------------------------------------------------- C9
\* What delayAgent, sendMessage and the return of a callback do with the
\* additional delay.
C9_Step ==
  /\ IsCall("delayAgent") =>
       /\ agentComputationDelays' = agentComputationDelays
       /\ ~call'.raised =>
            currentAgentAdditionalDelay' =
              currentAgentAdditionalDelay + IntOf(call'.arg)
  /\ (IsCall("sendMessage") /\ ~call'.raised) =>
       messages'[Len(messages')].time =
         currentTime + agentComputationDelays[call'.sender]
           + currentAgentAdditionalDelay + call'.arg
           + agentLatency(call'.sender, call'.recipient) + call'.noise
  /\ (InCallback /\ pc' = "loop") =>
       agentCurrentTimes'[callback.agent] =
         callback.time + agentComputationDelays[callback.agent]
           + currentAgentAdditionalDelay

\* C9: the additional delay is 0 at every callback entry; delayAgent adds to
\* it and never changes a computation delay; it is added to the times of the
\* messages sent afterwards in that callback and to the clock on return.
C9_TransientDelay ==
  /\ [](AtCallbackEntry => currentAgentAdditionalDelay = 0)
  /\ [][C9_Step]_vars

\* A message sent in a callback after delay was accumulated in it.
C9_Witness ==
  /\ InCallback
  /\ call.op = "sendMessage"
  /\ ~call.raised
  /\ currentAgentAdditionalDelay > 0

BadDelay(x) == x % 2 # 0 \/ x < 0

\* What a kernel call with an invalid argument, and a valid
\* setAgentComputeDelay, do.
C11_Step ==
  /\ (IsCall("sendMessage") /\ (\/ call'.sender = None
                                \/ call'.recipient = None
                                \/ call'.msg = NoMsg)) =>
       call'.raised /\ pc' = "raised" /\ messages' = messages
  /\ ((IsCall("setAgentComputeDelay") \/ IsCall("delayAgent"))
        /\ BadDelay(call'.arg)) =>
       /\ call'.raised /\ pc' = "raised"
       /\ agentComputationDelays' = agentComputationDelays
       /\ currentAgentAdditionalDelay' = currentAgentAdditionalDelay
  /\ (IsCall("setAgentComputeDelay") /\ ~BadDelay(call'.arg)) =>
       /\ ~call'.raised
       /\ agentComputationDelays' =
            [agentComputationDelays EXCEPT ![call'.sender] = IntOf(call'.arg)]
       /\ UNCHANGED <<messages, currentAgentAdditionalDelay, agentCurrentTimes,
                      currentTime>>
  /\ ~(IsCall("setAgentComputeDelay") /\ ~call'.raised) =>
       agentComputationDelays' = agentComputationDelays

\* C11: sendMessage with a None sender, recipient or message raises and puts
\* nothing in the queue; setAgentComputeDelay and delayAgent with a
\* non-integer or negative delay raise and leave the computation delays and
\* the additional delay as they were; a valid setAgentComputeDelay(a, d)
\* sets the computation delay of a only, and no other step of the run, in
\* this or a later callback, changes a computation delay.
C11_InvalidArguments == [][C11_Step]_vars

\* Witness: an agent set its computation delay to 2, and its next call,
\* setAgentComputeDelay with the float 1.5, raised and left the 2 in place.
C11_Witness ==
  /\ pc = "raised"
  /\ call.op = "setAgentComputeDelay"
  /\ call.arg = 3
  /\ agentComputationDelays[call.sender] = 2
  /\ agentComputationDelays[call.sender] # DefaultComputationDelay

\* ------------------------------------------------------------------- C12
\* The positions of the lifecycle calls of one kind.
CallsOf(hook) == {i \in 1 .. Len(lifecycle) : lifecycle[i][1] = hook}

\* Every agent has had the call `hook` among the first n lifecycle calls.
AllCalled(hook, n) ==
  \A a \in Agents : \E i \in CallsOf(hook) : i <= n /\ lifecycle[i][2] = a

\* C12: kernelInitializing is called on the agents in registration order and
\* on all of them before the first kernelStarting; every agent's
\* kernelStarting has been called, and the last one has returned, before a
\* wakeup or receiveMessage callback runs; kernelStopping is called on every
\* agent before the first kernelTerminating; and no callback runs once
\* kernelStopping has been called.
C12_Lifecycle ==
  /\ \A i, j \in CallsOf("kernelInitializing") :
       i < j => lifecycle[i][2] < lifecycle[j][2]
  /\ \A i \in CallsOf("kernelStarting") : AllCalled("kernelInitializing", i - 1)
  /\ \A i \in CallsOf("kernelTerminating") : AllCalled("kernelStopping", i - 1)
  /\ InCallback =>
       /\ AllCalled("kernelStarting", Len(lifecycle))
       /\ callback.kind \in {"wakeup", "receiveMessage"}
       /\ CallsOf("kernelStopping") = {}
  /\ (\A h \in {"kernelStopping", "kernelTerminating"} : CallsOf(h) = {})
       \/ pc \in {"kernelStopping", "kernelTerminating", "done"}

\* Witness: a run that dispatched a callback has ended, all four lifecycle
\* calls made on both agents.
C12_Witness ==
  /\ pc = "done"
  /\ \E id \in 1 .. Len(deliveries) : deliveries[id] > 0
  /\ AllCalled("kernelTerminating", Len(lifecycle))
  /\ Len(lifecycle) = 8

\* ------------------------------------------------------------------- C13
\* The number of branches of the run loop that can be taken.
LoopBranches ==
  (IF ENABLED Requeue THEN 1 ELSE 0) + (IF ENABLED Dispatch THEN 1 ELSE 0)
    + (IF ENABLED LoopExit THEN 1 ELSE 0)

OrdersOf(book) ==
  {book[t[1]][t[2]] : t \in {u \in (1 .. Len(book)) \X (1 .. MaxBookCalls) :
                               u[2] <= Len(book[u[1]])}}

\* The messages of the last call, as a set of their positions.
Sent(msg) == {i \in 1 .. Len(sent) : sent[i].msg = msg}

\* The positions in sent' of the messages sent in a step of the match loop.
NewMessages == (Len(sent) + 1) .. Len(sent')

\* A step of the match loop that changes the side of the book the new order
\* is matched against: an execution.
Matched ==
  /\ bpc = "matching"
  /\ IF new_order.is_buy_order THEN asks' # asks ELSE bids' # bids

\* ------------------------------------------------------------------- C14
\* C14: in every state of the book, so after any sequence of handleLimitOrder
\* and cancelOrder calls, every resting bid is priced strictly below every
\* resting ask: the best bid is below the best ask and no price holds both a
\* bid and an ask.
C14_NonCrossing ==
  /\ \A b \in OrdersOf(bids), a \in OrdersOf(asks) : b.limit_price < a.limit_price
  /\ (bids # <<>> /\ asks # <<>>) => bids[1][1].limit_price < asks[1][1].limit_price

\* Witness: a new order was executed in part against the best ask and its
\* rest entered the bids, with an ask still in the book.
C14_Witness ==
  /\ bpc = "idle"
  /\ bcall.op = "handleLimitOrder" /\ bcall.order.is_buy_order
  /\ Sent("ORDER_EXECUTED") # {} /\ Sent("ORDER_ACCEPTED") # {}
  /\ bids # <<>> /\ asks # <<>>

\* ------------------------------------------------------------------- C15
\* C15: the ORDER_EXECUTED messages sent in an iteration of handleLimitOrder
\* are for a resting order of the opposite side and all carry that resting
\* order's limit_price as fill_price, whatever the price of the new order.
C15_MatchPrice ==
  [][(bpc = "matching" /\ \E i \in NewMessages : sent'[i].msg = "ORDER_EXECUTED") =>
       \E r \in OrdersOf(OppositeSide(new_order)) :
         /\ \E i \in NewMessages : sent'[i].order.order_id = r.order_id
         /\ \A i \in NewMessages :
              sent'[i].msg = "ORDER_EXECUTED" =>
                sent'[i].order.fill_price = r.limit_price]_<<vars, bookVars>>

\* Witness: a buy was executed against an ask priced below the buy's limit:
\* both messages carry the ask's price.
C15_Witness ==
  /\ Len(sent) >= 2
  /\ sent[1].msg = "ORDER_EXECUTED" /\ sent[2].msg = "ORDER_EXECUTED"
  /\ sent[1].order.is_buy_order
  /\ sent[2].order.limit_price < sent[1].order.limit_price
  /\ sent[1].order.fill_price = sent[2].order.limit_price
  /\ sent[2].order.fill_price = sent[2].order.limit_price

\* ------------------------------------------------------------------- C16
\* Orders are numbered as they arrive, so of two resting orders the one with
\* the lower order_id entered the book earlier.
EnteredEarlier(a, b) == a.order_id < b.order_id

\* The orders of each price level are in the order they entered the book.
InEntryOrder(book) ==
  \A i \in 1 .. Len(book) : \A k, l \in 1 .. Len(book[i]) :
    k < l => EnteredEarlier(book[i][k], book[i][l])

\* C16: every price level holds its orders in the order they entered, so an
\* order filled in part keeps its place at the head; and the resting order
\* of an execution is one before which no order of its side and price
\* entered the book: a later order is filled only once the earlier ones are
\* consumed.
C16_Fifo ==
  /\ [](InEntryOrder(bids) /\ InEntryOrder(asks))
  /\ [][Matched =>
         \A i \in NewMessages :
           \A r \in OrdersOf(OppositeSide(new_order)) :
             (/\ r.limit_price = sent'[i].order.limit_price
              /\ r.is_buy_order = sent'[i].order.is_buy_order) =>
               ~EnteredEarlier(r, sent'[i].order)]_<<vars, bookVars>>

\* Witness: X and Y rest at one price, X first; a new order was executed
\* against X in part: X, with a share left, is still ahead of Y, untouched.
C16_Witness ==
  /\ bpc = "idle"
  /\ Len(sent) = 2
  /\ sent[2].msg = "ORDER_EXECUTED" /\ sent[2].order.order_id = 1
  /\ \E book \in {bids, asks} :
       /\ book # <<>>
       /\ Len(book[1]) = 2
       /\ book[1][1].order_id = 1 /\ book[1][1].quantity = 1
       /\ book[1][2].order_id = 2 /\ book[1][2].quantity = 2

\* ------------------------------------------------------------------- C17
\* The lesser of two quantities.
Min(a, b) == IF a <= b THEN a ELSE b

\* C17: an execution sends exactly two messages, ORDER_EXECUTED to the agent
\* of the new order and ORDER_EXECUTED to the agent of the resting order at
\* the head of the best opposite level, each with its own order's id, both
\* with the quantity min(new order's remaining quantity, head's quantity)
\* and the same fill_price, and of opposite sides; a step of the loop that is
\* not an execution sends no ORDER_EXECUTED.
C17_TwoExecuted ==
  [][bpc = "matching" =>
       IF Matched
         THEN LET head == OppositeSide(new_order)[1][1]
                  m1 == sent'[Len(sent) + 1]
                  m2 == sent'[Len(sent) + 2]
              IN /\ Len(sent') = Len(sent) + 2
                 /\ m1.msg = "ORDER_EXECUTED" /\ m2.msg = "ORDER_EXECUTED"
                 /\ m1.recipient = new_order.agent_id
                 /\ m2.recipient = head.agent_id
                 /\ m1.order.order_id = new_order.order_id
                 /\ m2.order.order_id = head.order_id
                 /\ m1.order.agent_id = new_order.agent_id
                 /\ m2.order.agent_id = head.agent_id
                 /\ m1.order.quantity = Min(new_order.quantity, head.quantity)
                 /\ m2.order.quantity = m1.order.quantity
                 /\ m1.order.fill_price = m2.order.fill_price
                 /\ m1.order.is_buy_order = new_order.is_buy_order
                 /\ m2.order.is_buy_order = ~new_order.is_buy_order
         ELSE \A i \in NewMessages : sent'[i].msg # "ORDER_EXECUTED"]_<<vars, bookVars>>

\* Witness: a new order for 1 share of agent 1 was executed against a
\* resting order for 2 shares of agent 0: one share each.
C17_Witness ==
  /\ Len(sent) = 2
  /\ sent[1].msg = "ORDER_EXECUTED" /\ sent[2].msg = "ORDER_EXECUTED"
  /\ sent[1].recipient = 1 /\ sent[2].recipient = 0
  /\ sent[1].order.quantity = 1 /\ sent[2].order.quantity = 1
  /\ bcall.order.quantity = 1
  /\ \E r \in Resting : r.order_id = sent[2].order.order_id /\ r.quantity = 1

\* ------------------------------------------------------------------- C18
RECURSIVE FilledOf(_, _)
\* The shares of order `id` executed according to the messages msgs.
FilledOf(id, msgs) ==
  IF msgs = <<>> THEN 0
  ELSE (IF msgs[1].msg = "ORDER_EXECUTED" /\ msgs[1].order.order_id = id
          THEN msgs[1].order.quantity ELSE 0) + FilledOf(id, Tail(msgs))

\* What is left of the order of the call when the step has been made.
ResidualAfter == bcall.order.quantity - FilledOf(bcall.order.order_id, sent')

\* The orders with the id of the order of the call that rest in the book
\* when the step has been made.
RestingAfter(book) == {r \in OrdersOf(book) : r.order_id = bcall.order.order_id}

\* C18: when the match loop of handleLimitOrder ends with a positive residual
\* (the quantity of the order less its executions), exactly one
\* ORDER_ACCEPTED has been sent, to the submitter and for the residual, and
\* the order rests once, on its own side, with the residual as quantity;
\* when it ends with no residual, and as long as the loop runs, no
\* ORDER_ACCEPTED has been sent and nothing of the order is in the book.
C18_Accepted ==
  [][bpc = "matching" =>
       LET accepted == {i \in 1 .. Len(sent') : sent'[i].msg = "ORDER_ACCEPTED"}
           own == IF bcall.order.is_buy_order THEN bids' ELSE asks'
           other == IF bcall.order.is_buy_order THEN asks' ELSE bids'
       IN IF bpc' = "idle" /\ ResidualAfter > 0
            THEN /\ Cardinality(accepted) = 1
                 /\ \A i \in accepted :
                      /\ sent'[i].recipient = bcall.order.agent_id
                      /\ sent'[i].order.order_id = bcall.order.order_id
                      /\ sent'[i].order.quantity = ResidualAfter
                 /\ RestingAfter(other) = {}
                 /\ RestingAfter(own) =
                      {[bcall.order EXCEPT !.quantity = ResidualAfter]}
                 /\ Cardinality({t \in (1 .. Len(own)) \X (1 .. MaxBookCalls) :
                                   /\ t[2] <= Len(own[t[1]])
                                   /\ own[t[1]][t[2]].order_id = bcall.order.order_id}) = 1
            ELSE /\ accepted = {}
                 /\ RestingAfter(own) = {} /\ RestingAfter(other) = {}
                 /\ bpc' = "idle" => ResidualAfter = 0]_<<vars, bookVars>>

\* Witness: a sell for 1 share rests at 2; a buy for 2 shares at 3 takes it
\* and its remaining share rests as the best bid, with no ask left: two
\* ORDER_EXECUTED and one ORDER_ACCEPTED.
C18_Witness ==
  /\ bpc = "idle"
  /\ bcall.op = "handleLimitOrder"
  /\ bcall.order.is_buy_order /\ bcall.order.quantity = 2 /\ bcall.order.limit_price = 3
  /\ Len(sent) = 3
  /\ sent[1].order.fill_price = 2 /\ sent[1].order.quantity = 1
  /\ sent[3].msg = "ORDER_ACCEPTED" /\ sent[3].order.quantity = 1
  /\ asks = <<>>
  /\ Len(bids) = 1 /\ Len(bids[1]) = 1
  /\ bids[1][1].quantity = 1 /\ bids[1][1].limit_price = 3

\* ------------------------------------------------------------------- C19
\* C19: a handleLimitOrder call for an order of another symbol, or with a
\* quantity of 0 or less, leaves bids, asks and last_trade as they were,
\* sends no message and is over: no step of the match loop follows.
C19_Rejected ==
  [][(norders' = norders + 1
        /\ (bcall'.order.symbol # Symbol \/ bcall'.order.quantity <= 0)) =>
       /\ bids' = bids /\ asks' = asks /\ last_trade' = last_trade
       /\ sent' = <<>>
       /\ bpc' = "idle"
       /\ new_order' = NoOrder]_<<vars, bookVars>>

\* Witness: an order for no shares was brought to a book that holds a bid
\* and an ask; no message was sent.
C19_Witness ==
  /\ bcall.op = "handleLimitOrder"
  /\ bcall.order.symbol = Symbol
  /\ bcall.order.quantity = 0
  /\ bids # <<>> /\ asks # <<>>
  /\ sent = <<>>
  /\ bpc = "idle"

\* ------------------------------------------------------------------- C20
\* The levels of a side of the book without the order r, and without the
\* level r was alone in.
Without(book, r) ==
  SelectSeq([i \in 1 .. Len(book) |-> SelectSeq(book[i], LAMBDA o : o # r)],
            LAMBDA level : level # <<>>)

\* C20: a cancelOrder(order) call for which an order r with the order_id and
\* the limit_price of `order` rests on the side of `order` takes r, and its
\* level if r was alone in it, out of that side and leaves the other levels
\* and orders, the other side and last_trade as they were; it sends exactly
\* one message, ORDER_CANCELLED, to the agent that submitted r, with r and
\* its remaining quantity as the order.
C20_CancelOrder ==
  [][ncancels' = ncancels + 1 =>
       \A r \in OrdersOf(OwnSide(bcall'.order)) :
         (/\ r.order_id = bcall'.order.order_id
          /\ r.limit_price = bcall'.order.limit_price) =>
           /\ IF bcall'.order.is_buy_order
                THEN bids' = Without(bids, r) /\ asks' = asks
                ELSE asks' = Without(asks, r) /\ bids' = bids
           /\ last_trade' = last_trade
           /\ sent' = <<Message(r.agent_id, "ORDER_CANCELLED", r)>>]_<<vars, bookVars>>

\* ------------------------------------------------------------------- C21
\* C21: a cancelOrder(order) call for an order_id that no resting order has
\* (the order was executed in full, was cancelled before, or never entered
\* the book) leaves bids, asks and last_trade as they were and sends no
\* message.
C21_StaleCancel ==
  [][(ncancels' = ncancels + 1
        /\ \A r \in Resting : r.order_id # bcall'.order.order_id) =>
       /\ bids' = bids /\ asks' = asks /\ last_trade' = last_trade
       /\ sent' = <<>>]_allVars

\* Witness: order 1 rested and was executed in full by order 2, of which a
\* part rests at the price asked for; the cancelOrder call for order 1 found
\* nothing and sent nothing.
C21_Witness ==
  /\ bcall.op = "cancelOrder"
  /\ bcall.order.order_id = 1
  /\ norders = 2 /\ ncancels = 1
  /\ sent = <<>>
  /\ \E r \in Resting :
       /\ r.order_id = 2
       /\ r.limit_price = bcall.order.limit_price
       /\ r.is_buy_order = bcall.order.is_buy_order

\* ===================================================== claims on the market
\* The orders trader a has sent to the exchange.
SubmittedBy(a) == {id \in DOMAIN submitted : submitted[id].agent_id = a}

\* The step hands the oldest message under way to its trader.
Delivered == inflight # <<>> /\ inflight' = Tail(inflight)

\* ------------------------------------------------------------------- C22
\* C22: an order that is accepted into the book with nothing of it executed
\* and is then cancelled in the book makes a round trip. No ORDER_EXECUTED
\* is sent for its order_id from then on. When the cancelOrder call follows
\* the handleLimitOrder call that entered it, bids, asks and last_trade are
\* again what they were before the order was entered. No message about an
\* acceptance or a cancellation changes the holdings of the trader that
\* receives it, and a trader all of whose orders made the round trip holds
\* what it held at the start.
C22_RoundTrip ==
  /\ [][\A i \in NewMessages :
          sent'[i].msg = "ORDER_EXECUTED" =>
            sent'[i].order.order_id \notin roundtrip]_allVars
  /\ [][(/\ ncancels' = ncancels + 1
          /\ sent' # <<>>
          /\ bcall.op = "handleLimitOrder"
          /\ bcall.order.order_id = sent'[1].order.order_id
          /\ Len(sent) = 1) =>
         /\ bids' = book_before.bids
         /\ asks' = book_before.asks
         /\ last_trade' = book_before.last_trade]_allVars
  /\ [][(Delivered /\ Head(inflight).msg \in {"ORDER_ACCEPTED", "ORDER_CANCELLED"}) =>
         holdings' = holdings]_allVars
  /\ [](\A a \in Agents :
          (SubmittedBy(a) # {} /\ SubmittedBy(a) \subseteq roundtrip) =>
            holdings[a] = ("CASH" :> StartingCash))

\* Witness: a bid rests; a second bid was entered behind it, accepted and
\* cancelled; the book is as before the second bid, both messages about it
\* have been handed to its trader, which has no open order left.
C22_Witness ==
  /\ bcall.op = "cancelOrder"
  /\ bcall.order.order_id \in roundtrip
  /\ bcall.order.order_id = 2
  /\ inflight = <<>>
  /\ book_before.bids # <<>>
  /\ bids = book_before.bids /\ asks = book_before.asks
  /\ orders[bcall.order.agent_id] = EmptyDict
  /\ holdings[bcall.order.agent_id] = ("CASH" :> StartingCash)

\* ------------------------------------------------------------------- C23
RECURSIVE Total(_, _)
\* The sum over the traders of what they hold under a key of holdings.
Total(key, traders) ==
  IF traders = {} THEN 0
  ELSE LET a == CHOOSE t \in traders : TRUE
       IN getHoldings(holdings[a], key) + Total(key, traders \ {a})

\* An ORDER_EXECUTED is on its way to a trader.
ExecutedUnderWay ==
  \E i \in 1 .. Len(inflight) : inflight[i].msg = "ORDER_EXECUTED"

\* C23: whenever no ORDER_EXECUTED is on its way, so when both messages of
\* every execution made so far have been processed, the CASH of all traders
\* sums to what it was at the start and their shares of the symbol sum to
\* what they were at the start, zero; so CASH plus shares valued at any one
\* price, the same for all traders, sums to the initial sum.
C23_Conservation ==
  ~ExecutedUnderWay =>
    /\ Total("CASH", Agents) = Cardinality(Agents) * StartingCash
    /\ Total(Symbol, Agents) = 0
    /\ \A price \in Prices :
         Total("CASH", Agents) + Total(Symbol, Agents) * price
           = Cardinality(Agents) * StartingCash

\* Witness: trader 0 bought a share from trader 1 below the limit of its
\* order, and both have processed the execution.
C23_Witness ==
  /\ inflight = <<>>
  /\ bpc = "idle"
  /\ getHoldings(holdings[0], Symbol) = 1
  /\ getHoldings(holdings[1], Symbol) = -1
  /\ holdings[0]["CASH"] = StartingCash - OpenPrice
  /\ holdings[1]["CASH"] = StartingCash + OpenPrice
  /\ \E id \in SubmittedBy(0) : submitted[id].limit_price > OpenPrice

\* ===================================================== claims on the trader
\* The step is a placeLimitOrder call.
Places == ntcalls' = ntcalls + 1 /\ tcall'.op = "placeLimitOrder"

\* The last trade price of every symbol held and of the symbol of the
\* order is known to the trader, so that markToMarket has a value.
Priced(a, order) ==
  SymbolsHeld(holdings[a]) \cup {order.symbol} \subseteq DOMAIN trader_last_trade[a]

\* The holdings h with the quantity of the order applied to its symbol: added
\* for a buy, taken off for a sell.
Applied(h, order) ==
  [key \in DOMAIN h \cup {order.symbol} |->
     IF key = order.symbol
       THEN getHoldings(h, key)
              + (IF order.is_buy_order THEN order.quantity ELSE -order.quantity)
       ELSE h[key]]

\* The step places the order: it is recorded in orders under its order_id,
\* and one message, a LIMIT_ORDER with the order, is sent to the exchange.
Admits(a, order) ==
  /\ DOMAIN orders'[a] = DOMAIN orders[a] \cup {order.order_id}
  /\ orders'[a][order.order_id] = order
  /\ \A id \in DOMAIN orders[a] : id # order.order_id => orders'[a][id] = orders[a][id]
  /\ \A b \in Agents \ {a} : orders'[b] = orders[b]
  /\ Len(tsent') = 1
  /\ tsent'[1].call = "sendMessage"
  /\ tsent'[1].recipient = ExchangeID
  /\ tsent'[1].body = [msg |-> "LIMIT_ORDER", sender |-> a, order |-> order]

C25_Rejected ==
  [][LET a == tcall'.agent
         order == tcall'.order
         current == markToMarket(a, holdings[a]) - holdings[a]["CASH"]
         next == markToMarket(a, Applied(holdings[a], order))
                   - Applied(holdings[a], order)["CASH"]
     IN (/\ Places
         /\ \/ order.quantity <= 0
            \/ Priced(a, order) /\ next > current /\ next > StartingCash)
          => /\ tsent' = <<>>
             /\ toExchange' = toExchange
             /\ orders' = orders
             /\ holdings' = holdings
             /\ tpc' = tpc]_allVars

\* Witness: the trader, holding its starting cash only, asked to buy shares
\* worth more than that cash at the last trade price it knows, and nothing
\* was recorded or sent.
C25_Witness ==
  /\ tcall.op = "placeLimitOrder"
  /\ tcall.order.is_buy_order /\ tcall.order.quantity = 2
  /\ holdings[Trader] = ("CASH" :> StartingCash)
  /\ Symbol \in DOMAIN trader_last_trade[Trader]
  /\ trader_last_trade[Trader][Symbol] * 2 > StartingCash
  /\ orders[Trader] = EmptyDict
  /\ tsent = <<>>

\* ------------------------------------------------------------------- C26
\* C26: in every reachable state the at-risk capital of a trader that
\* started with its starting cash only, markToMarket(holdings) - CASH, is at
\* most the starting cash, whatever orders were placed, executed and
\* cancelled and however many are open at once.
C26_NoLeverage ==
  \A a \in Agents :
    SymbolsHeld(holdings[a]) \subseteq DOMAIN trader_last_trade[a]
      => markToMarket(a, holdings[a]) - holdings[a]["CASH"] <= StartingCash

\* ------------------------------------------------------------------- C27
\* C27: an ORDER_EXECUTED for an order of quantity q and fill_price p adds q
\* shares of its symbol to the holdings of the trader for a buy and takes q
\* off for a sell, takes q * p off CASH for a buy and adds q * p for a sell,
\* removes the entry of the symbol when it reaches 0, and leaves every other
\* entry of the holdings as it was; CASH is in the holdings at all times.
C27_Executed ==
  /\ [](\A a \in Agents : "CASH" \in DOMAIN holdings[a])
  /\ [][LET a == tcall'.agent
            order == tcall'.body.order
            sym == order.symbol
            shares == getHoldings(holdings[a], sym)
                        + (IF order.is_buy_order THEN order.quantity
                                                 ELSE -order.quantity)
            cash == holdings[a]["CASH"]
                      + (IF order.is_buy_order
                           THEN -(order.quantity * order.fill_price)
                           ELSE order.quantity * order.fill_price)
        IN (/\ Delivered
            /\ tcall'.op = "receiveMessage"
            /\ tcall'.body.msg = "ORDER_EXECUTED")
             => /\ order.quantity > 0 /\ order.fill_price # None
                /\ sym \in DOMAIN holdings'[a] <=> shares # 0
                /\ getHoldings(holdings'[a], sym) = shares
                /\ holdings'[a]["CASH"] = cash
                /\ DOMAIN holdings'[a] \ {sym} = DOMAIN holdings[a] \ {sym}
                /\ \A key \in DOMAIN holdings[a] \ {sym, "CASH"} :
                     holdings'[a][key] = holdings[a][key]
                /\ \A b \in Agents \ {a} : holdings'[b] = holdings[b]]_allVars

\* Witness: an ORDER_EXECUTED for a buy reached a trader that was short of
\* the symbol by the quantity bought, and the entry of the symbol is gone.
C27_Witness ==
  /\ tcall.op = "receiveMessage"
  /\ tcall.body.msg = "ORDER_EXECUTED"
  /\ tcall.body.order.is_buy_order
  /\ DOMAIN holdings[tcall.agent] = {"CASH"}
  /\ \E b \in Agents \ {tcall.agent} : getHoldings(holdings[b], Symbol) # 0

\* ------------------------------------------------------------------- C28
\* The step is the receipt of a message by the trader observed on its own.
Receives == nreceived' = nreceived + 1 /\ tcall'.op = "receiveMessage"

\* C28: every order in the orders of a trader has a quantity above 0 in every
\* reachable state; an ORDER_EXECUTED of at least the open quantity removes
\* the entry, one of a smaller quantity takes that quantity off it, and one
\* for an order_id that is not in orders leaves orders as they are while the
\* holdings are updated all the same.
C28_OpenQuantity ==
  /\ [](\A a \in Agents : \A id \in DOMAIN orders[a] : orders[a][id].quantity > 0)
  /\ [][LET a == tcall'.agent
            order == tcall'.body.order
            id == order.order_id
            os == orders[a]
        IN (Receives /\ tcall'.body.msg = "ORDER_EXECUTED")
             => /\ \A b \in Agents \ {a} : orders'[b] = orders[b]
                /\ \A other \in DOMAIN os \ {id} :
                     other \in DOMAIN orders'[a] /\ orders'[a][other] = os[other]
                /\ DOMAIN orders'[a] \subseteq DOMAIN os
                /\ IF id \notin DOMAIN os
                     THEN /\ orders' = orders
                          /\ getHoldings(holdings'[a], order.symbol)
                               = getHoldings(holdings[a], order.symbol)
                                   + (IF order.is_buy_order THEN order.quantity
                                                            ELSE -order.quantity)
                   ELSE IF order.quantity >= os[id].quantity
                     THEN id \notin DOMAIN orders'[a]
                     ELSE /\ id \in DOMAIN orders'[a]
                          /\ orders'[a][id].quantity = os[id].quantity - order.quantity
                          /\ [orders'[a][id] EXCEPT !.quantity = os[id].quantity]
                               = os[id]]_allVars

\* Witness: an ORDER_EXECUTED for a part of an open order was received, and
\* the order stays open with the rest of its quantity.
C28_Witness ==
  /\ tcall.op = "receiveMessage"
  /\ tcall.body.msg = "ORDER_EXECUTED"
  /\ tcall.body.order.quantity = 1
  /\ tcall.body.order.order_id \in DOMAIN orders[Trader]
  /\ orders[Trader][tcall.body.order.order_id].quantity = 1
  /\ submitted[tcall.body.order.order_id].quantity = 2

\* ------------------------------------------------------------------- C29
\* C29: on an ORDER_CANCELLED the trader takes the order_id out of its orders
\* when it is there and leaves orders as they are when it is not; either way
\* the holdings, CASH among them, last_trade and mkt_closed stay as they were
\* and nothing is sent.
C29_Cancelled ==
  [][LET a == tcall'.agent
         id == tcall'.body.order.order_id
     IN (Receives /\ tcall'.body.msg = "ORDER_CANCELLED")
          => /\ DOMAIN orders'[a] = DOMAIN orders[a] \ {id}
             /\ \A other \in DOMAIN orders'[a] : orders'[a][other] = orders[a][other]
             /\ \A b \in Agents \ {a} : orders'[b] = orders[b]
             /\ holdings' = holdings
             /\ trader_last_trade' = trader_last_trade
             /\ mkt_closed' = mkt_closed
             /\ tsent' = <<>>
             /\ toExchange' = toExchange]_allVars

\* Witness: with two orders open and none executed, the ORDER_CANCELLED of
\* one of them was received, and the other one is still open.
C29_Witness ==
  /\ tcall.op = "receiveMessage"
  /\ tcall.body.msg = "ORDER_CANCELLED"
  /\ Cardinality(DOMAIN submitted) = 2
  /\ ntcalls = 2 /\ nreceived = 2
  /\ Symbol \in DOMAIN trader_last_trade[Trader]
  /\ holdings[Trader] = ("CASH" :> StartingCash)
  /\ DOMAIN orders[Trader] = DOMAIN submitted \ {tcall.body.order.order_id}
  /\ Cardinality(DOMAIN orders[Trader]) = 1

\* ------------------------------------------------------------------- C30
\* The message closes the market for the trader that receives it: a
\* MKT_CLOSED, or a QUERY_LAST_TRADE or QUERY_SPREAD reply flagged mkt_closed.
Closes(m) ==
  \/ m.msg = "MKT_CLOSED"
  \/ m.msg \in {"QUERY_LAST_TRADE", "QUERY_SPREAD"} /\ m.mkt_closed

\* C30: mkt_closed is a latch. It becomes true on the receipt of a MKT_CLOSED
\* or of a QUERY_LAST_TRADE or QUERY_SPREAD reply flagged mkt_closed, on
\* nothing else, and no later message, wakeup or call sets it back to false.
C30_Latch ==
  [][/\ \A a \in Agents : mkt_closed[a] => mkt_closed'[a]
     /\ (Receives /\ Closes(tcall'.body)) => mkt_closed'[tcall'.agent]
     /\ \A a \in Agents :
          (~mkt_closed[a] /\ mkt_closed'[a])
            => Receives /\ tcall'.agent = a /\ Closes(tcall'.body)]_allVars

\* Witness: a trader for which the market is closed received a reply that
\* is not flagged mkt_closed, and the market is still closed for it.
C30_Witness ==
  /\ tcall.op = "receiveMessage"
  /\ tcall.body.msg \in {"QUERY_LAST_TRADE", "QUERY_SPREAD"}
  /\ ~tcall.body.mkt_closed
  /\ mkt_closed[tcall.agent]

\* ------------------------------------------------------------------- C31
\* The trader knows both the opening and the closing time of the market.
HasMktHours(a) == mkt_open[a] # None /\ mkt_close[a] # None

\* The same at the end of the step.
KnowsMktHours(a) == mkt_open'[a] # None /\ mkt_close'[a] # None

\* C31: a wakeup of a trader that does not know mkt_open sends WHEN_MKT_OPEN
\* and WHEN_MKT_CLOSE to the exchange. The wakeup at mkt_open +
\* getWakeFrequency() is asked for in the receiveMessage call in which both
\* market hours first become known and in no other step; the hours, once
\* known, stay known, so it is asked for once, in whatever order the two
\* replies come and however often they are repeated.
C31_MktHours ==
  [][/\ (tcall'.op = "wakeup" /\ mkt_open[tcall'.agent] = None)
          => /\ Len(tsent') = 2
             /\ \A i \in 1 .. 2 : /\ tsent'[i].call = "sendMessage"
                                   /\ tsent'[i].recipient = ExchangeID
                                   /\ tsent'[i].body.sender = tcall'.agent
             /\ tsent'[1].body.msg = "WHEN_MKT_OPEN"
             /\ tsent'[2].body.msg = "WHEN_MKT_CLOSE"
     /\ \A a \in Agents : HasMktHours(a) => KnowsMktHours(a)
     /\ Receives
          => IF ~HasMktHours(tcall'.agent) /\ KnowsMktHours(tcall'.agent)
               THEN /\ Len(tsent') = 1
                    /\ tsent'[1].call = "setWakeup"
                    /\ tsent'[1].body.time
                         = mkt_open'[tcall'.agent] + WakeFrequency
               ELSE \A i \in 1 .. Len(tsent') : tsent'[i].call # "setWakeup"
     /\ (\E i \in 1 .. Len(tsent') : tsent'[i].call = "setWakeup")
          => tcall'.op = "receiveMessage" /\ KnowsMktHours(tcall'.agent)]_allVars

\* Witness: both market hours are known and a WHEN_MKT_OPEN reply has come
\* as the third message received; no wakeup is asked for this time.
C31_Witness ==
  /\ tcall.op = "receiveMessage"
  /\ tcall.body.msg = "WHEN_MKT_OPEN"
  /\ HasMktHours(Trader)
  /\ nreceived = 3 /\ ntcalls = 0
  /\ tsent = <<>>

\* ------------------------------------------------------------------- C32
\* The price p is at least as good for the new order as the price r: as low
\* for a buy, as high for a sell.
AsGood(p, r) == IF new_order.is_buy_order THEN p <= r ELSE p >= r

\* The resting orders the new order crosses.
Crossed == {o \in OrdersOf(OppositeSide(new_order)) :
              AsGood(o.limit_price, new_order.limit_price)}

\* C32: every step of the match loop of handleLimitOrder taken while there is
\* a resting order the new order crosses is an execution, against the head
\* of a level of the opposite side whose price no resting order of that
\* side betters (the lowest ask for a buy, the highest bid for a sell), and
\* the fill is at that price; the new order enters the book only when it
\* crosses nothing.
C32_PricePriority ==
  [][(bpc = "matching" /\ (bpc' # bpc \/ sent' # sent))
       => IF Crossed # {}
            THEN /\ Len(sent') = Len(sent) + 2
                 /\ \A i \in NewMessages : sent'[i].msg = "ORDER_EXECUTED"
                 /\ sent'[Len(sent) + 1].order.order_id = new_order.order_id
                 /\ LET matched == sent'[Len(sent')].order
                        book == OppositeSide(new_order)
                    IN /\ \E i \in 1 .. Len(book) :
                            /\ book[i][1].order_id = matched.order_id
                            /\ book[i][1].limit_price = matched.limit_price
                       /\ \A o \in OrdersOf(book) :
                            AsGood(matched.limit_price, o.limit_price)
                       /\ matched.fill_price = matched.limit_price
                       /\ sent'[Len(sent) + 1].order.fill_price = matched.limit_price
            ELSE /\ \A i \in NewMessages : sent'[i].msg # "ORDER_EXECUTED"
                 /\ bpc' = "idle"]_allVars

\* Witness: one order was executed against two resting orders of different
\* prices, the better price first.
C32_Witness ==
  /\ bcall.op = "handleLimitOrder"
  /\ Len(sent) = 4
  /\ \A i \in 1 .. 4 : sent[i].msg = "ORDER_EXECUTED"
  /\ sent[2].order.limit_price # sent[4].order.limit_price
  /\ IF bcall.order.is_buy_order
       THEN sent[2].order.limit_price < sent[4].order.limit_price
       ELSE sent[2].order.limit_price > sent[4].order.limit_price

\* ------------------------------------------------------------------- C33
\* A side of the book is well formed: no level is empty, the orders of a
\* level have the price of its head and the side given, every order has a
\* quantity above 0, and the prices of the levels fall strictly (for the
\* bids) or rise strictly (for the asks) from level to level.
WellFormed(book, is_buy_order) ==
  /\ \A i \in 1 .. Len(book) :
       /\ book[i] # <<>>
       /\ \A k \in 1 .. Len(book[i]) :
            /\ book[i][k].limit_price = book[i][1].limit_price
            /\ book[i][k].is_buy_order = is_buy_order
            /\ book[i][k].quantity > 0
  /\ \A i, j \in 1 .. Len(book) :
       i < j => IF is_buy_order
                  THEN book[i][1].limit_price > book[j][1].limit_price
                  ELSE book[i][1].limit_price < book[j][1].limit_price

\* C33: in every state of the book, after any sequence of handleLimitOrder
\* and cancelOrder calls, the bid levels are in strictly descending and the
\* ask levels in strictly ascending order of price, so that no two levels of
\* a side have the same price; no level is empty, the orders of a level all
\* have its price and side, and every resting order has a quantity above 0.
C33_BookStructure == WellFormed(bids, TRUE) /\ WellFormed(asks, FALSE)

\* Witness: a side of the book has two levels, the first of them opened by an
\* order that came after the one that opened the second, and one of the
\* levels holds two orders.
C33_Witness ==
  \E book \in {bids, asks} :
    /\ Len(book) = 2
    /\ book[1][1].order_id > book[2][1].order_id
    /\ Len(book[1]) + Len(book[2]) = 3

\* ------------------------------------------------------------------- C34
RECURSIVE LevelShares(_)
\* The shares resting in a price level.
LevelShares(level) ==
  IF level = <<>> THEN 0 ELSE level[1].quantity + LevelShares(Tail(level))

RECURSIVE Shares(_)
\* The shares resting on a side of the book.
Shares(book) ==
  IF book = <<>> THEN 0 ELSE LevelShares(book[1]) + Shares(Tail(book))

\* C34: when a handleLimitOrder call for an order of quantity Q that is not
\* discarded ends, the quantities of the ORDER_EXECUTED messages for that
\* order and the quantity of it that entered the book add up to Q; the
\* shares resting on the opposite side have gone down by the sum of those
\* executions since the call began; and the side of the order is as it was
\* when the call began but for the entered rest of the order.
C34_Quantity ==
  [][(bpc = "matching" /\ bpc' = "idle")
       => LET order == bcall.order
              fills == FilledOf(order.order_id, sent')
              own == IF order.is_buy_order THEN bids' ELSE asks'
              opposite == IF order.is_buy_order THEN asks' ELSE bids'
              own_before == IF order.is_buy_order THEN book_before.bids
                                                  ELSE book_before.asks
              opposite_before == IF order.is_buy_order THEN book_before.asks
                                                       ELSE book_before.bids
              entered == {r \in OrdersOf(own) : r.order_id = order.order_id}
              rest == Shares(own) - Shares(own_before)
          IN /\ fills + rest = order.quantity
             /\ fills >= 0 /\ rest >= 0
             /\ Shares(opposite) = Shares(opposite_before) - fills
             /\ IF rest = 0
                  THEN own = own_before /\ entered = {}
                  ELSE /\ entered = {[order EXCEPT !.quantity = rest]}
                       /\ \A r \in entered : Without(own, r) = own_before]_allVars

\* Witness: an order for 2 shares met a single resting share: 1 share was
\* executed and the second share of the order entered the book.
C34_Witness ==
  /\ bpc = "idle"
  /\ bcall.op = "handleLimitOrder"
  /\ bcall.order.quantity = 2
  /\ FilledOf(bcall.order.order_id, sent) = 1
  /\ Shares(OwnSide(bcall.order)) = Shares(IF bcall.order.is_buy_order
                                             THEN book_before.bids
                                             ELSE book_before.asks) + 1
  /\ Shares(IF bcall.order.is_buy_order THEN book_before.asks
                                        ELSE book_before.bids) = 1

\* ------------------------------------------------------------------- C35
RECURSIVE FillValue(_, _)
\* The value, quantity times fill_price, of the executions of order `id`
\* according to the messages msgs.
FillValue(id, msgs) ==
  IF msgs = <<>> THEN 0
  ELSE (IF msgs[1].msg = "ORDER_EXECUTED" /\ msgs[1].order.order_id = id
          THEN msgs[1].order.quantity * msgs[1].order.fill_price ELSE 0)
         + FillValue(id, Tail(msgs))

\* The fill prices of the executions of order `id` in the messages msgs.
FillPrices(id, msgs) ==
  {msgs[i].order.fill_price :
     i \in {k \in 1 .. Len(msgs) : /\ msgs[k].msg = "ORDER_EXECUTED"
                                   /\ msgs[k].order.order_id = id}}

\* C35: last_trade of the book changes only at the end of a handleLimitOrder
\* call in which the order was executed at least once, and it is then the
\* average of the fill prices of that call weighted by their quantities, as
\* the integer nearest to it: the one fill price when there is only one, and
\* never below the lowest or above the highest fill price of the call. A
\* cancelOrder call and an order that is discarded or matches nothing leave
\* last_trade as it was.
C35_LastTrade ==
  [][LET id == bcall.order.order_id
         qty == FilledOf(id, sent')
         value == FillValue(id, sent')
         prices == FillPrices(id, sent')
         ends == bpc = "matching" /\ bpc' = "idle"
     IN /\ last_trade' # last_trade => ends /\ prices # {}
        /\ (ends /\ prices = {}) => last_trade' = last_trade
        /\ (ends /\ prices # {})
             => /\ 2 * (last_trade' * qty - value) <= qty
                /\ 2 * (value - last_trade' * qty) <= qty
                /\ \A p \in prices : prices = {p} => last_trade' = p
                /\ \E p \in prices : p <= last_trade'
                /\ \E p \in prices : p >= last_trade']_allVars

\* Witness: an order was executed at two prices, and last_trade is neither
\* of them: in particular not the price of the last execution.
C35_Witness ==
  /\ bpc = "idle"
  /\ bcall.op = "handleLimitOrder"
  /\ Len(sent) = 4
  /\ \A i \in 1 .. 4 : sent[i].msg = "ORDER_EXECUTED"
  /\ last_trade # sent[1].order.fill_price
  /\ last_trade # sent[3].order.fill_price

\* ------------------------------------------------------------------- C37
\* The callback is for a wakeup asked for at a time before the start of the
\* simulation (from kernelStarting, where setWakeup does not test the time).
EarlyWakeup ==
  InCallback /\ callback.kind = "wakeup" /\ callback.earliest < StartTime

\* C37 as stated: no wakeup or receiveMessage callback is invoked with a time
\* before startTime, and a wakeup asked for at an earlier time is delivered
\* at startTime.
C37_AtStartTime ==
  /\ InCallback => callback.time >= StartTime
  /\ EarlyWakeup => callback.time = StartTime

\* C37, amended: no wakeup or receiveMessage callback is invoked with a time
\* before startTime; a wakeup asked for at an earlier time is delivered at
\* startTime when it is the first callback of its agent, and otherwise not
\* before the end of the computation of the callback the agent had before.
C37_NotBeforeStart ==
  /\ InCallback => callback.time >= StartTime
  /\ EarlyWakeup =>
       IF lastEnd[callback.agent] = None
         THEN callback.time = StartTime
         ELSE callback.time >= lastEnd[callback.agent]

\* Witness: a wakeup asked for at a time before startTime is being delivered,
\* at startTime.
C37_Witness == EarlyWakeup /\ callback.time = StartTime /\ callback.earliest = 0

\* ------------------------------------------------------------------- C36
\* C36: with computation delays of at least 1 ns, a finite stopTime and
\* callbacks that each enqueue finitely many events, the run loop ends and
\* the kernel reaches kernelStopping, also when the agents ask for a wakeup
\* at the current time and send messages in every callback they get.
C36_Terminates == <>(pc = "kernelStopping")

\* Witness: the loop has ended past the stop time with events of the agents
\* still in the queue.
C36_Witness ==
  /\ pc = "kernelStopping"
  /\ currentTime > StopTime
  /\ Len(messages) >= 2
  /\ \E i \in 1 .. Len(messages) : messages[i].type = WAKEUP
  /\ \E i \in 1 .. Len(messages) : messages[i].type = MESSAGE

\* ------------------------------------------------------------------- C38
\* The entry of a message of the channel sent before the one being
\* delivered, and with no larger a one-time delay: it is still in the queue.
Overtaken(i) ==
  /\ messages[i].type = MESSAGE
  /\ messages[i].recipient = ChannelTo
  /\ messages[i].id < callback.id
  /\ messages[i].msg = "m1" \/ callback.msg = "m2"

\* C38: without latency noise, of two messages an agent sends to the same
\* agent, the second in the same or in a later callback and with a one-time
\* delay at least that of the first, the first is received first: while
\* receiveMessage runs for a message, no message sent to the recipient before
\* it is still in the queue.
C38_ChannelOrder ==
  (InCallback /\ callback.kind = "receiveMessage" /\ callback.agent = ChannelTo)
    => \A i \in 1 .. Len(messages) : ~Overtaken(i)

\* ------------------------------------------------------------------- C39
\* C39: after a QUERY_LAST_TRADE or QUERY_SPREAD reply carrying data = p, in
\* cents, for a symbol, last_trade of the trading agent for the symbol is p,
\* the price markToMarket and the at-risk check value positions at, and once
\* mkt_closed is true daily_close_price for the symbol is p as well.
C39_ReportedPrice ==
  [][LET a == tcall'.agent
         m == tcall'.body
     IN (Receives /\ m.msg \in {"QUERY_LAST_TRADE", "QUERY_SPREAD"})
          => /\ m.symbol \in DOMAIN trader_last_trade'[a]
             /\ trader_last_trade'[a][m.symbol] = m.data
             /\ mkt_closed'[a]
                  => /\ m.symbol \in DOMAIN daily_close_price'[a]
                     /\ daily_close_price'[a][m.symbol] = m.data]_allVars

\* ------------------------------------------------------------------- C40
\* The step is a wakeup of the ZeroIntelligenceAgent.
Wakes == nwakeups' = nwakeups + 1

\* The messages of this kind that the callback of the step sends.
Sends(kind) ==
  {k \in 1 .. Len(tsent') :
     tsent'[k].call = "sendMessage" /\ tsent'[k].body.msg = kind}

\* C40: a callback of a ZeroIntelligenceAgent that ends with mkt_closed true
\* sends no LIMIT_ORDER and no CANCEL_ORDER; a wakeup with mkt_closed true
\* asks for the next wakeup and for the spread, and for nothing else, as long
\* as daily_close_price has no entry for the symbol, and makes no kernel call
\* once it has one; a callback sends at most one LIMIT_ORDER, and sends it
\* only on a QUERY_SPREAD reply received in state AWAITING_SPREAD with the
\* market open, so the orders sent are never more than the wakeups.
C40_AfterClose ==
  /\ [](Cardinality(DOMAIN submitted) <= nwakeups)
  /\ [][/\ ((Wakes \/ Receives) /\ mkt_closed'[Trader])
            => Sends("LIMIT_ORDER") = {} /\ Sends("CANCEL_ORDER") = {}
        /\ (Wakes /\ mkt_closed[Trader])
            => IF Symbol \in DOMAIN daily_close_price[Trader]
                 THEN tsent' = <<>>
                 ELSE /\ Len(tsent') = 2
                      /\ tsent'[1].call = "setWakeup"
                      /\ Sends("QUERY_SPREAD") = {2}
        /\ (Wakes \/ Receives)
            => /\ Cardinality(Sends("LIMIT_ORDER")) <= 1
               /\ Sends("LIMIT_ORDER") # {}
                    => /\ Receives
                       /\ tcall'.body.msg = "QUERY_SPREAD"
                       /\ state = "AWAITING_SPREAD"
                       /\ ~mkt_closed'[Trader]]_allVars

\* Witness: the agent, which has sent an order, wakes with the market closed
\* and the daily close price recorded, and makes no kernel call.
C40_Witness ==
  /\ tcall.op = "wakeup"
  /\ mkt_closed[Trader]
  /\ Symbol \in DOMAIN daily_close_price[Trader]
  /\ tsent = <<>>
  /\ submitted # EmptyDict

====
